---- MODULE Spec2Model ----
(***************************************************************************)
(* A model of the batcherbird sampling pipeline: the MIDI transport        *)
(* (crates/batcherbird-core/src/midi.rs) and the sampling engine           *)
(* (crates/batcherbird-core/src/sampler.rs): the range driver with its     *)
(* persistent input stream, the single-note driver, and the audio          *)
(* callbacks that run concurrently with them.                              *)
(***************************************************************************)
EXTENDS Integers, Sequences, FiniteSets, TLC

(***************************************************************************)
(* Bounds of the model.                                                    *)
(***************************************************************************)
\* The longest note range a session is started with.
MaxNotes == 2
\* The number of audio callbacks the OS delivers during one session.
MaxCallbacks == 3
\* The number of frames one callback buffer carries.
FramesPerBuffer == 2
\* The write failure patterns of a panic sweep: every k-th write fails, k up to this.
MaxFailPeriod == 10
\* The longest audio buffer handed to detection.
MaxAudioLen == 7
\* The largest number of Samples in one export batch.
MaxBatch == 2
\* The largest number of periods in a buffer handed to loop detection.
MaxRepeats == 10
\* The largest number of Samples a .dspreset file is written for.
MaxPresetSamples == 3
\* How far from the ends and the middle of a 16-bit range the raw frames
\* tried lie.
MaxEdgeDistance == 20
\* The largest frame written as 24 bits is 2^MaxShift / 8.
MaxShift == 4
\* The length of the buffers a crossfade is applied to, and the longest
\* crossfade_ms.
MaxCrossfadeLen == 8
MaxCrossfadeMs == 4
\* The number of GUI commands issued one after the other.
MaxCommands == 3
\* The number of start_input_monitoring and stop_input_monitoring calls, which
\* may run at the same time.
MaxMonitorCalls == 3
\* The number of WAV files in a directory given to generate_instrument_files.
MaxDirFiles == 3

(***************************************************************************)
(* Program constants.                                                      *)
(***************************************************************************)
\* u8: the type of notes, velocities and channels.
U8Mod == 256
\* send_midi_panic: for channel in 0..16
PanicChannels == 16
\* send_midi_panic: for note in 0..128
PanicNotes == 128
\* MIDI status bytes and controller numbers.
StatusNoteOn == 144
StatusNoteOff == 128
StatusCC == 176
CCAllNotesOff == 123
CCAllSoundOff == 120
CCResetControllers == 121
\* The sleeps of send_midi_panic (ms), and the notes between two pauses.
PanicCCPauseMs == 10
PanicNotePauseMs == 1
PanicNotePauseEvery == 32
PanicFinalPauseMs == 5
\* The fixed sleeps of the range driver (ms).
SetupSettleMs == 100
PanicSettleMs == 50
InterNoteGapMs == 300
\* usize, the type of sample indices and lengths, wraps at 2^64 in a build
\* without overflow checks.  The model checker's integers have 32 bits, so
\* the model wraps at 2^30: its buffers are far shorter, and a wrapped
\* difference exceeds every length in the one case as in the other.
UsizeMod == 1073741824
\* Loop detection: the region windows' longest size, the length a loop is
\* best at, the quality a loop must exceed (thousandths), the zero crossings
\* detection needs.
RegionWindowMax == 1024
IdealLoopLength == 44100
QualityThreshold == 500
MinZeroCrossings == 4
\* The highest MIDI velocity.
MaxVelocity == 127
\* i16::MAX, and the offset and divisor of the u16 conversion.
I16Max == 32767
\* The largest 24-bit sample value.
Int24Max == 8388607
U16Midpoint == 32768

\* x & 0x7F and x & 0x0F on u8 values.
And7F(x) == x % 128
And0F(x) == x % 16

(***************************************************************************)
(* MIDI messages, as the three bytes written to the port.                  *)
(***************************************************************************)
\* send_note_on: [0x90 | (channel & 0x0F), note & 0x7F, velocity & 0x7F]
NoteOnMsg(channel, note, velocity) ==
    <<StatusNoteOn + And0F(channel), And7F(note), And7F(velocity)>>

\* send_note_off: [0x80 | (channel & 0x0F), note & 0x7F, velocity & 0x7F]
NoteOffMsg(channel, note, velocity) ==
    <<StatusNoteOff + And0F(channel), And7F(note), And7F(velocity)>>

\* [0xB0 | channel, controller, 0]
ControlChangeMsg(channel, controller) ==
    <<StatusCC + channel, controller, 0>>

\* send_channel_panic: All Notes Off, then Reset All Controllers, on channel & 0x0F.
ChannelPanicMessages(channel) ==
    << ControlChangeMsg(And0F(channel), CCAllNotesOff),
       ControlChangeMsg(And0F(channel), CCResetControllers) >>

(***************************************************************************)
(* The events a driver leaves in its log.  t is the kind of step; a, b, c  *)
(* are the arguments of the call; w is what was written to the MIDI port   *)
(* (<<>> for a step that writes nothing); ok tells whether the write       *)
(* succeeded.                                                              *)
(***************************************************************************)
Ev(t, a, b, c, w, ok) == [t |-> t, a |-> a, b |-> b, c |-> c, w |-> w, ok |-> ok]
Step(t) == Ev(t, 0, 0, 0, <<>>, TRUE)
Sleep(ms) == Ev("sleep", ms, 0, 0, <<>>, TRUE)
NoteOnEv(ch, n, v, ok) == Ev("note_on", ch, n, v, NoteOnMsg(ch, n, v), ok)
NoteOffEv(ch, n, v, ok) == Ev("note_off", ch, n, v, NoteOffMsg(ch, n, v), ok)
CCEv(ch, k, ok) ==
    LET m == ChannelPanicMessages(ch)[k] IN Ev("cc", ch, m[2], 0, m, ok)

\* The events of kind t in a log, and their number.
OfKind(l, t) == SelectSeq(l, LAMBDA e : e.t = t)
Count(l, t) == Len(OfKind(l, t))
\* The position of the k-th event of kind t in a log (0 when there is none).
PosOf(l, t, k) ==
    LET ps == {i \in 1..Len(l) : l[i].t = t /\ Count(SubSeq(l, 1, i), t) = k}
    IN IF ps = {} THEN 0 ELSE CHOOSE i \in ps : TRUE

(***************************************************************************)
(* Inputs.                                                                 *)
(***************************************************************************)
\* SamplingConfig::default(), the GUI's config with a zero velocity, and a
\* config without pre-roll, release and post delay on a channel above 15.
Configs ==
    { [note_duration_ms |-> 2000, release_time_ms |-> 1000, pre_delay_ms |-> 100,
       post_delay_ms |-> 100, midi_channel |-> 0, velocity |-> 100],
      [note_duration_ms |-> 1000, release_time_ms |-> 500, pre_delay_ms |-> 100,
       post_delay_ms |-> 100, midi_channel |-> 0, velocity |-> 0],
      [note_duration_ms |-> 500, release_time_ms |-> 0, pre_delay_ms |-> 0,
       post_delay_ms |-> 0, midi_channel |-> 17, velocity |-> 200] }

\* The first notes of the ranges tried: one inside 0..127, one at its top.
StartNotes == {60, 127}

\* (start_note, end_note): ranges of at most MaxNotes notes, valid or reaching
\* above 127, and ranges with start_note > end_note.
RangeInputs ==
    {<<s, e>> \in StartNotes \X (0..(U8Mod - 1)) : s - 2 <= e /\ e <= s + MaxNotes - 1}

\* The notes sample_single_note is called with.
SingleNotes == {60, 127, 200}

VARIABLES
    op,                 \* "range", "single" or "panic": the operation running
    overflow_checks,    \* the build: TRUE panics on integer overflow, FALSE wraps
    config,             \* SamplingEngine.config
    start_note, end_note,
    cancel_at,          \* the length of the log when a cancel was signalled (0: never)
    pc,                 \* the driver's position
    index,              \* the range loop's enumerate() index
    total_notes,
    samples,            \* the Samples collected so far
    audio_samples,      \* the shared recording buffer
    recording_active,   \* the persistent stream's flag
    recording_complete, \* the single-note stream's flag
    samples_lock,       \* who holds the buffer's mutex
    flag_lock,          \* who holds the flag's mutex
    stream,             \* the input stream: none, built, playing, paused, dropped
    cb_pc,              \* the audio callback's position
    cb_count,           \* the number of callbacks started
    cb_begun,           \* where the driver was when the running callback began
    log,                \* the driver's steps, in order
    result,             \* running, Ok, Err or Panicked
    sample_format,      \* the input device's config.sample_format()
    levels,             \* level_meter_state: the callback whose levels it holds
    p_pc,               \* panic sweep: idle, phase1, phase2, phase3 or done
    p_channel,          \* panic sweep: the loop's channel
    p_fail,             \* panic sweep: <<period, phase>> of the failing writes
    p_log,              \* panic sweep: the messages written, in order
    p_ok,               \* panic sweep: for each write, whether it succeeded
    notes_sent,         \* panic sweep: the note-offs that succeeded
    p_slept,            \* panic sweep: the milliseconds slept
    p_result,           \* panic sweep: running, Ok or Err
    d_pc,               \* detection: idle, detect, trim or done
    d_sample,           \* detection: the Sample (audio_data, sample_rate, channels)
    d_original,         \* detection: the Sample's audio_data before the call
    d_config,           \* detection: the DetectionConfig
    d_result,           \* detection: what detect_boundaries returned
    e_pc,               \* export: idle, detect, process, write, preset or done
    e_samples,          \* export: the Samples handed to export_samples
    e_config,           \* export: SampleExporter.config
    e_index,            \* export: the Sample the loop is at (1-based)
    e_copy,             \* export: sample_copy.audio_data
    e_detection,        \* export: what apply_detection returned for this Sample
    e_data,             \* export: the audio_data handed to write_wav_file
    exported_files,     \* export: the paths pushed so far
    e_groups,           \* export: the <group>s of the .dspreset file written
    e_disk,             \* export: the files on disk
    e_failed_at,        \* export: the step whose error ended the call
    e_result,           \* export: running, Ok or Err
    l_pc,               \* loop detection: idle, crossings, candidates, evaluate, done
    l_audio,            \* loop detection: audio_data, in units of l_unit
    l_unit,             \* loop detection: "full" scale, or "tiny" (1e-30 of it)
    l_sample_rate,      \* loop detection: sample_rate
    l_config,           \* loop detection: LoopDetectionConfig
    zero_crossings,     \* loop detection: what find_zero_crossings returned
    l_candidates,       \* loop detection: the candidates generated
    l_result,           \* loop detection: the LoopDetectionResult
    c_pc,               \* conversion: idle, convert, extend or done
    c_format,           \* conversion: the stream's sample format
    c_data,             \* conversion: the frames the OS delivered
    f32_samples,        \* conversion: the frames as 32-bit floats
    c_buffer,           \* conversion: the recording buffer
    w_pc,               \* wav writing: idle, write, finalize or done
    w_audio,            \* wav writing: audio_data, each frame a quotient
    w_index,            \* wav writing: the frame the loop is at (1-based)
    w_written,          \* wav writing: the integers the writer accepted
    w_result,           \* wav writing: running, Ok or Err
    w_reason,           \* wav writing: what the Err is about: io or range
    x_pc,               \* crossfade: idle, apply or done
    x_audio,            \* crossfade: audio_data, in thousandths
    x_original,         \* crossfade: audio_data before the call
    x_candidate,        \* crossfade: loop_candidate
    x_crossfade_ms,     \* crossfade: config.crossfade_ms
    x_sample_rate,      \* crossfade: sample_rate
    g_pc,               \* GUI command: idle, take, send, spawn, recv or put_back
    g_command,          \* GUI command: the command running
    MIDI_CONNECTION,    \* GUI command: the global slot, Some or None
    g_held,             \* GUI command: who has the connection taken from the slot
    g_worker,           \* GUI command: the worker thread's position
    g_outcome,          \* GUI command: the result of the MIDI or sampling call
    g_result,           \* GUI command: what the last command returned
    g_done,             \* GUI command: the number of commands that have returned
    MONITORING_ACTIVE,  \* monitoring: the global flag
    MONITORING_THREAD,  \* monitoring: the stored join handle, 0 for None
    GLOBAL_SAMPLING_ENGINE, \* monitoring: the thread whose engine is stored, 0 for None
    m_kind,             \* monitoring: per call, start or stop
    m_pc,               \* monitoring: per call, its position
    m_handle,           \* monitoring: per call, the handle it spawned or took
    t_pc,               \* monitoring: per thread, its position
    t_stream,           \* monitoring: per thread, its stream
    i_pc,               \* instrument files: scan, parse, generate or done
    i_format,           \* instrument files: export_format
    i_wav_files,        \* instrument files: the directory's WAV paths as read
    i_index,            \* instrument files: the file the parsing loop is at
    i_samples,          \* instrument files: the Samples made from the names
    i_groups,           \* instrument files: the groups written
    i_result            \* instrument files: running, Ok or Err

sessionVars == <<op, overflow_checks, config, start_note, end_note, cancel_at,
                 pc, index,
                 total_notes, samples, audio_samples, recording_active,
                 recording_complete, samples_lock, flag_lock, stream, cb_pc,
                 cb_count, cb_begun, log, result, sample_format, levels>>
panicVars == <<p_pc, p_channel, p_fail, p_log, p_ok, notes_sent, p_slept, p_result>>
detectVars == <<d_pc, d_sample, d_original, d_config, d_result>>
\* The variables of the operations that run outside a sampling session.
exportVars == <<e_pc, e_samples, e_config, e_index, e_copy, e_detection, e_data,
                exported_files, e_groups, e_disk, e_failed_at, e_result>>
loopVars == <<l_pc, l_audio, l_unit, l_sample_rate, l_config, zero_crossings,
              l_candidates, l_result>>
convertVars == <<c_pc, c_format, c_data, f32_samples, c_buffer>>
\* The variables of the conversions and of the GUI's commands.
encodeVars == <<w_pc, w_audio, w_index, w_written, w_result, w_reason>>
crossfadeVars == <<x_pc, x_audio, x_original, x_candidate, x_crossfade_ms,
                   x_sample_rate>>
slotVars == <<g_pc, g_command, MIDI_CONNECTION, g_held, g_worker, g_outcome, g_result,
              g_done>>
monitorVars == <<MONITORING_ACTIVE, MONITORING_THREAD, GLOBAL_SAMPLING_ENGINE, m_kind,
                 m_pc, m_handle, t_pc, t_stream>>
instrumentVars == <<i_pc, i_format, i_wav_files, i_index, i_samples, i_groups,
                    i_result>>
extraVars == <<convertVars, encodeVars, crossfadeVars, slotVars, monitorVars, instrumentVars>>
\* What a step of one of these operations leaves alone besides its own
\* variables.
coreVars == <<sessionVars, panicVars, detectVars, exportVars, loopVars>>
exceptConvert == <<coreVars, encodeVars, crossfadeVars, slotVars, monitorVars, instrumentVars>>
exceptEncode == <<coreVars, convertVars, crossfadeVars, slotVars, monitorVars, instrumentVars>>
exceptCrossfade == <<coreVars, convertVars, encodeVars, slotVars, monitorVars, instrumentVars>>
exceptSlot == <<coreVars, convertVars, encodeVars, crossfadeVars, monitorVars, instrumentVars>>
exceptMonitor == <<coreVars, convertVars, encodeVars, crossfadeVars, slotVars, instrumentVars>>
exceptInstrument == <<coreVars, convertVars, encodeVars, crossfadeVars, slotVars, monitorVars>>
restVars == <<panicVars, detectVars, exportVars, loopVars, extraVars>>
\* What a step that does no level metering leaves alone.
otherVars == <<restVars, levels>>
vars == <<sessionVars, panicVars, detectVars, exportVars, loopVars, extraVars>>


(***************************************************************************)
(* Helpers of the drivers.                                                 *)
(***************************************************************************)
\* The driver's positions inside the note loop.
NotePcs ==
    {"clear_lock", "clear", "arm_lock", "arm", "pre_delay", "channel_panic",
     "settle", "note_on", "gate", "note_off", "release", "post_delay",
     "disarm_lock", "disarm", "snap_lock", "snap", "gap"}

\* The frames the k-th callback delivers.
CallbackData(k) == [i \in 1..FramesPerBuffer |-> <<k, i>>]

\* The sample formats a capture stream is built for.
SampleFormats == {"F32", "I16", "U16"}

\* level_detector.process_samples(..) and level_state.update_levels(levels)
\* in the k-th callback: the slot holds the levels of the k-th buffer.
UpdateLevels(k) == k

\* Whether the callback of build_recording_stream meters the buffer as its
\* first statement: the f32 closure does, the i16 and u16 closures meter
\* inside `if !*recording_complete`.
MetersFirst(format) == format = "F32"

\* buffer.clear()
ClearedBuffer_Kept(buffer) == buffer

ClearedBuffer(buffer) == <<>>

\* The stream when the function that owns it returns: a cpal::Stream is
\* released when its owner goes out of scope, on `?` as on the last line.
ScopeExit_Leaked(s) == s

ScopeExit(s) == IF s \in {"built", "playing", "paused"} THEN "dropped" ELSE s

\* Where the range loop continues after a note: at the head of the for loop,
\* inside the one stream set up before it.
NextNotePc_Reopen == "get_device"

NextNotePc == "loop"

\* The note the range loop is at.
CurrentNote == start_note + index

\* `return Err(..)` or `?`: the function ends and its locals are dropped.
Return(res, l) ==
    /\ pc' = "done"
    /\ result' = res
    /\ stream' = ScopeExit(stream)
    /\ log' = IF ScopeExit(stream) # stream THEN Append(l, Step("drop")) ELSE l

\* A step of the driver that touches only its position and its log.
Advance(next, l) ==
    /\ pc' = next
    /\ log' = l
    /\ UNCHANGED <<stream, result>>

\* conn.send(..).map_err(..)? of one message.
Send(ev_ok, ev_failed, next) ==
    \E ok \in BOOLEAN :
        IF ok THEN Advance(next, Append(log, ev_ok))
        ELSE Return("Err", Append(log, ev_failed))

\* MidiManager::send_channel_panic(midi_conn, channel)?: the first failing
\* write returns.
SendChannelPanic(channel, next) ==
    \E failed \in 0..2 :
        CASE failed = 0 ->
                Advance(next, log \o <<CCEv(channel, 1, TRUE), CCEv(channel, 2, TRUE)>>)
          [] failed = 1 ->
                Return("Err", Append(log, CCEv(channel, 1, FALSE)))
          [] failed = 2 ->
                Return("Err", log \o <<CCEv(channel, 1, TRUE), CCEv(channel, 2, FALSE)>>)

\* if ms > 0 { sleep(ms) }
SleepIfPositive_Skipped(ms, next) ==
    Advance(next, log)

SleepIfPositive(ms, next) ==
    Advance(next, IF ms > 0 THEN Append(log, Sleep(ms)) ELSE log)

\* The safety sweep before a range session, and the time given to the
\* hardware to process it.
SetupPanicLog_Omitted(l) == Append(l, Sleep(SetupSettleMs))

SetupPanicLog(l) == l \o <<Step("panic"), Sleep(SetupSettleMs)>>

inputVars == <<op, overflow_checks, config, start_note, end_note, cancel_at,
               sample_format>>
cbVars == <<cb_pc, cb_count, cb_begun>>
lockVars == <<samples_lock, flag_lock>>
bufferVars == <<audio_samples, recording_active, recording_complete>>
\* What a driver step without shared state leaves alone.
driverOnly == <<inputVars, index, total_notes, samples, bufferVars, lockVars,
                cbVars, otherVars>>

(***************************************************************************)
(* sample_note_range_blocking / sample_note_range_async.                   *)
(***************************************************************************)
\* tokio::runtime::Runtime::new()
RangeRuntimeNew ==
    /\ op = "range" /\ pc = "rt_new"
    /\ \E ok \in BOOLEAN :
        IF ok THEN Advance("total_notes", log) ELSE Return("Err", log)
    /\ UNCHANGED driverOnly

\* let total_notes = end_note - start_note + 1; in u8: an overflow panics in
\* a build with overflow checks and wraps in one without.
RangeTotalNotes ==
    /\ op = "range" /\ pc = "total_notes"
    /\ LET d == end_note - start_note
           overflow == d < 0 \/ (d % U8Mod) + 1 >= U8Mod
       IN IF overflow /\ overflow_checks
          THEN /\ Return("Panicked", log)
               /\ UNCHANGED total_notes
          ELSE /\ total_notes' = (d + 1) % U8Mod
               /\ Advance("setup_panic", log)
    /\ UNCHANGED <<inputVars, index, samples, bufferVars, lockVars, cbVars, otherVars>>

\* MidiManager::send_midi_panic(midi_conn)?; sleep(100 ms)
RangeSetupPanic ==
    /\ op = "range" /\ pc = "setup_panic"
    /\ Advance("get_device", SetupPanicLog(log))
    /\ UNCHANGED driverOnly

\* get_default_input_device()?; default_input_config()?
RangeGetDevice ==
    /\ op = "range" /\ pc = "get_device"
    /\ \E ok \in BOOLEAN :
        IF ok THEN Advance("build", log) ELSE Return("Err", log)
    /\ UNCHANGED driverOnly

\* The shared buffer and flag, and build_persistent_recording_stream(..)?
RangeBuildStream ==
    /\ op = "range" /\ pc = "build"
    /\ \E ok \in BOOLEAN :
        IF ok
        THEN /\ stream' = "built"
             /\ pc' = "play"
             /\ log' = Append(log, Step("build"))
             /\ UNCHANGED result
        ELSE Return("Err", log)
    /\ audio_samples' = <<>>
    /\ recording_active' = FALSE
    /\ UNCHANGED <<inputVars, index, total_notes, samples, recording_complete,
                   lockVars, cbVars, otherVars>>

\* stream.play()?
RangePlay ==
    /\ op = "range" /\ pc = "play"
    /\ \E ok \in BOOLEAN :
        IF ok
        THEN /\ stream' = "playing"
             /\ pc' = "loop"
             /\ log' = Append(log, Step("play"))
             /\ UNCHANGED result
        ELSE Return("Err", log)
    /\ UNCHANGED driverOnly

\* for (index, note) in (start_note..=end_note).enumerate()
RangeLoop ==
    /\ op = "range" /\ pc = "loop"
    /\ Advance(IF CurrentNote <= end_note THEN "clear_lock" ELSE "pause", log)
    /\ UNCHANGED driverOnly

\* audio_samples.lock()
RangeClearLock ==
    /\ op = "range" /\ pc = "clear_lock"
    /\ samples_lock = "none"
    /\ samples_lock' = "driver"
    /\ Advance("clear", log)
    /\ UNCHANGED <<inputVars, index, total_notes, samples, bufferVars, flag_lock,
                   cbVars, otherVars>>

\* The holder of the buffer's mutex after the block around buffer.clear():
\* the guard `buffer` is dropped at the block's end.
BufferGuardAfterClear_Kept == "driver"

BufferGuardAfterClear == "none"

\* buffer.clear(), and the guard's release
RangeClear ==
    /\ op = "range" /\ pc = "clear"
    /\ audio_samples' = ClearedBuffer(audio_samples)
    /\ samples_lock' = BufferGuardAfterClear
    /\ Advance("arm_lock", Append(log, Step("clear")))
    /\ UNCHANGED <<inputVars, index, total_notes, samples, recording_active,
                   recording_complete, flag_lock, cbVars, otherVars>>

\* recording_active.lock()
RangeArmLock ==
    /\ op = "range" /\ pc = "arm_lock"
    /\ flag_lock = "none"
    /\ flag_lock' = "driver"
    /\ Advance("arm", log)
    /\ UNCHANGED <<inputVars, index, total_notes, samples, bufferVars, samples_lock,
                   cbVars, otherVars>>

\* *recording = true, and the guard's release
RangeArm ==
    /\ op = "range" /\ pc = "arm"
    /\ recording_active' = TRUE
    /\ flag_lock' = "none"
    /\ Advance("pre_delay", Append(log, Step("arm")))
    /\ UNCHANGED <<inputVars, index, total_notes, samples, audio_samples,
                   recording_complete, samples_lock, cbVars, otherVars>>

\* if pre_delay_ms > 0 { sleep(pre_delay_ms) }
RangePreDelay ==
    /\ op = "range" /\ pc = "pre_delay"
    /\ SleepIfPositive(config.pre_delay_ms, "channel_panic")
    /\ UNCHANGED driverOnly

\* MidiManager::send_channel_panic(midi_conn, midi_channel)?
RangeChannelPanic ==
    /\ op = "range" /\ pc = "channel_panic"
    /\ SendChannelPanic(config.midi_channel, "settle")
    /\ UNCHANGED driverOnly

\* sleep(50 ms)
RangeSettle ==
    /\ op = "range" /\ pc = "settle"
    /\ Advance("note_on", Append(log, Sleep(PanicSettleMs)))
    /\ UNCHANGED driverOnly

\* MidiManager::send_note_on(midi_conn, midi_channel, note, velocity)?
RangeNoteOn ==
    /\ op = "range" /\ pc = "note_on"
    /\ Send(NoteOnEv(config.midi_channel, CurrentNote, config.velocity, TRUE),
            NoteOnEv(config.midi_channel, CurrentNote, config.velocity, FALSE),
            "gate")
    /\ UNCHANGED driverOnly

\* sleep(note_duration_ms)
RangeGate ==
    /\ op = "range" /\ pc = "gate"
    /\ Advance("note_off", Append(log, Sleep(config.note_duration_ms)))
    /\ UNCHANGED driverOnly

\* MidiManager::send_note_off(midi_conn, midi_channel, note, velocity)?
RangeNoteOff ==
    /\ op = "range" /\ pc = "note_off"
    /\ Send(NoteOffEv(config.midi_channel, CurrentNote, config.velocity, TRUE),
            NoteOffEv(config.midi_channel, CurrentNote, config.velocity, FALSE),
            "release")
    /\ UNCHANGED driverOnly

\* if release_time_ms > 0 { sleep(release_time_ms) }
RangeRelease ==
    /\ op = "range" /\ pc = "release"
    /\ SleepIfPositive(config.release_time_ms, "post_delay")
    /\ UNCHANGED driverOnly

\* if post_delay_ms > 0 { sleep(post_delay_ms) }
RangePostDelay ==
    /\ op = "range" /\ pc = "post_delay"
    /\ SleepIfPositive(config.post_delay_ms, "disarm_lock")
    /\ UNCHANGED driverOnly

\* recording_active.lock()
RangeDisarmLock ==
    /\ op = "range" /\ pc = "disarm_lock"
    /\ flag_lock = "none"
    /\ flag_lock' = "driver"
    /\ Advance("disarm", log)
    /\ UNCHANGED <<inputVars, index, total_notes, samples, bufferVars, samples_lock,
                   cbVars, otherVars>>

\* *recording = false, and the guard's release
RangeDisarm ==
    /\ op = "range" /\ pc = "disarm"
    /\ recording_active' = FALSE
    /\ flag_lock' = "none"
    /\ Advance("snap_lock", Append(log, Step("disarm")))
    /\ UNCHANGED <<inputVars, index, total_notes, samples, audio_samples,
                   recording_complete, samples_lock, cbVars, otherVars>>

\* audio_samples.lock()
RangeSnapLock ==
    /\ op = "range" /\ pc = "snap_lock"
    /\ samples_lock = "none"
    /\ samples_lock' = "driver"
    /\ Advance("snap", log)
    /\ UNCHANGED <<inputVars, index, total_notes, samples, bufferVars, flag_lock,
                   cbVars, otherVars>>

\* buffer.clone(), the guard's release, and samples.push(Sample { .. })
RangeSnap ==
    /\ op = "range" /\ pc = "snap"
    /\ samples' = Append(samples, [note |-> CurrentNote,
                                   velocity |-> config.velocity,
                                   audio_data |-> audio_samples])
    /\ samples_lock' = "none"
    /\ Advance("gap", Append(log, Step("snapshot")))
    /\ UNCHANGED <<inputVars, index, total_notes, bufferVars, flag_lock, cbVars,
                   otherVars>>

\* if index < total_notes as usize - 1 { sleep(300 ms) }, and the next
\* iteration.  With total_notes = 0 the subtraction overflows.
RangeGap ==
    /\ op = "range" /\ pc = "gap"
    /\ IF total_notes = 0 /\ overflow_checks
       THEN /\ Return("Panicked", log)
            /\ UNCHANGED index
       ELSE /\ index' = index + 1
            /\ Advance(NextNotePc,
                       IF total_notes = 0 \/ index < total_notes - 1
                       THEN Append(log, Sleep(InterNoteGapMs)) ELSE log)
    /\ UNCHANGED <<inputVars, total_notes, samples, bufferVars, lockVars, cbVars,
                   otherVars>>

\* stream.pause()?
RangePause ==
    /\ op = "range" /\ pc = "pause"
    /\ \E ok \in BOOLEAN :
        IF ok
        THEN /\ stream' = "paused"
             /\ pc' = "drop"
             /\ log' = Append(log, Step("pause"))
             /\ UNCHANGED result
        ELSE Return("Err", log)
    /\ UNCHANGED driverOnly

\* drop(stream)
RangeDrop ==
    /\ op = "range" /\ pc = "drop"
    /\ stream' = "dropped"
    /\ pc' = "final_panic"
    /\ log' = Append(log, Step("drop"))
    /\ UNCHANGED result
    /\ UNCHANGED driverOnly

\* MidiManager::send_midi_panic(midi_conn)?; Ok(samples)
RangeFinalPanic ==
    /\ op = "range" /\ pc = "final_panic"
    /\ Return("Ok", Append(log, Step("panic")))
    /\ UNCHANGED driverOnly

(***************************************************************************)
(* Where the driver is in the per-note protocol: "head" from the arming of *)
(* a note to its Note-Off, "tail" from the Note-Off written to the         *)
(* disarming, "quiet" otherwise.                                           *)
(***************************************************************************)
HeadPcs == {"pre_delay", "channel_panic", "settle", "note_on", "gate", "note_off"}
TailPcs == {"release", "post_delay", "disarm_lock", "disarm"}
Phase == IF pc \in HeadPcs THEN "head" ELSE IF pc \in TailPcs THEN "tail" ELSE "quiet"

\* What is remembered of a callback while it runs: the note and the phase
\* the driver was at when the OS delivered the buffer.
CallbackBegun == [index |-> index, phase |-> Phase]
NoCallback == [index |-> 0, phase |-> "none"]

(***************************************************************************)
(* The callback of build_persistent_recording_stream.  The flag's guard    *)
(* lives until the closure ends, so the buffer is locked inside it.        *)
(***************************************************************************)
\* The OS delivers a buffer: in every format's closure the levels are
\* updated first.
PersistentCbBegin ==
    /\ op = "range" /\ stream = "playing"
    /\ cb_pc = "idle" /\ cb_count < MaxCallbacks
    /\ cb_count' = cb_count + 1
    /\ cb_begun' = CallbackBegun
    /\ levels' = UpdateLevels(cb_count')
    /\ cb_pc' = "p_lock_flag"
    /\ UNCHANGED <<inputVars, pc, index, total_notes, samples, bufferVars, lockVars,
                   stream, log, result, restVars>>

\* recording_active.lock()
PersistentCbLockFlag ==
    /\ cb_pc = "p_lock_flag"
    /\ flag_lock = "none"
    /\ flag_lock' = "callback"
    /\ cb_pc' = "p_check"
    /\ UNCHANGED <<inputVars, pc, index, total_notes, samples, bufferVars,
                   samples_lock, stream, cb_count, cb_begun, log, result,
                   otherVars>>

\* The holder of the flag's mutex inside `if *recording_flag { .. }`: the
\* guard `recording_flag` is a local of the closure and lives to its end.
FlagGuardInsideIf_Released == "none"

FlagGuardInsideIf == "callback"

\* The condition of `if *recording_flag { .. }`.
RecordingFlagSet_Ignored(recording_flag) == TRUE

RecordingFlagSet(recording_flag) == recording_flag

\* if *recording_flag { .. }
PersistentCbCheck ==
    /\ cb_pc = "p_check"
    /\ IF RecordingFlagSet(recording_active)
       THEN /\ cb_pc' = "p_lock_samples"
            /\ flag_lock' = FlagGuardInsideIf
       ELSE /\ cb_pc' = "idle"
            /\ flag_lock' = "none"
    /\ cb_begun' = IF RecordingFlagSet(recording_active) THEN cb_begun
                   ELSE NoCallback
    /\ UNCHANGED <<inputVars, pc, index, total_notes, samples, bufferVars,
                   samples_lock, stream, cb_count, log, result, otherVars>>

\* samples.lock()
PersistentCbLockSamples ==
    /\ cb_pc = "p_lock_samples"
    /\ samples_lock = "none"
    /\ samples_lock' = "callback"
    /\ cb_pc' = "p_extend"
    /\ UNCHANGED <<inputVars, pc, index, total_notes, samples, bufferVars,
                   flag_lock, stream, cb_count, cb_begun, log, result,
                   otherVars>>

\* audio_samples.extend_from_slice(data), and both guards' release
PersistentCbExtend ==
    /\ cb_pc = "p_extend"
    /\ audio_samples' = audio_samples \o CallbackData(cb_count)
    /\ samples_lock' = "none"
    /\ flag_lock' = IF flag_lock = "callback" THEN "none" ELSE flag_lock
    /\ cb_pc' = "idle"
    /\ cb_begun' = NoCallback
    /\ UNCHANGED <<inputVars, pc, index, total_notes, samples, recording_active,
                   recording_complete, stream, cb_count, log, result, otherVars>>

(***************************************************************************)
(* sample_single_note_blocking / sample_single_note_async.  The note is    *)
(* start_note.                                                             *)
(***************************************************************************)
\* tokio::runtime::Runtime::new()
SingleRuntimeNew ==
    /\ op = "single" /\ pc = "rt_new"
    /\ \E ok \in BOOLEAN :
        IF ok THEN Advance("s_get_device", log) ELSE Return("Err", log)
    /\ UNCHANGED driverOnly

\* get_default_input_device()?; default_input_config()?
SingleGetDevice ==
    /\ op = "single" /\ pc = "s_get_device"
    /\ \E ok \in BOOLEAN :
        IF ok THEN Advance("s_build", log) ELSE Return("Err", log)
    /\ UNCHANGED driverOnly

\* The buffer and the completion flag, and build_recording_stream(..)?
SingleBuildStream ==
    /\ op = "single" /\ pc = "s_build"
    /\ \E ok \in BOOLEAN :
        IF ok
        THEN /\ stream' = "built"
             /\ pc' = "s_play"
             /\ log' = Append(log, Step("build"))
             /\ UNCHANGED result
        ELSE Return("Err", log)
    /\ audio_samples' = <<>>
    /\ recording_complete' = FALSE
    /\ UNCHANGED <<inputVars, index, total_notes, samples, recording_active,
                   lockVars, cbVars, otherVars>>

\* stream.play()?
SinglePlay ==
    /\ op = "single" /\ pc = "s_play"
    /\ \E ok \in BOOLEAN :
        IF ok
        THEN /\ stream' = "playing"
             /\ pc' = "s_pre_delay"
             /\ log' = Append(log, Step("play"))
             /\ UNCHANGED result
        ELSE Return("Err", log)
    /\ UNCHANGED driverOnly

\* if pre_delay_ms > 0 { sleep(pre_delay_ms) }
SinglePreDelay ==
    /\ op = "single" /\ pc = "s_pre_delay"
    /\ SleepIfPositive(config.pre_delay_ms, "s_channel_panic")
    /\ UNCHANGED driverOnly

\* MidiManager::send_channel_panic(midi_conn, midi_channel)?
SingleChannelPanic ==
    /\ op = "single" /\ pc = "s_channel_panic"
    /\ SendChannelPanic(config.midi_channel, "s_settle")
    /\ UNCHANGED driverOnly

\* The time the single-note driver gives the hardware after the channel
\* panic.
SingleSettleLog_Skipped(l) == l

SingleSettleLog(l) == Append(l, Sleep(PanicSettleMs))

\* sleep(50 ms)
SingleSettle ==
    /\ op = "single" /\ pc = "s_settle"
    /\ Advance("s_note_on", SingleSettleLog(log))
    /\ UNCHANGED driverOnly

\* MidiManager::send_note_on(midi_conn, midi_channel, note, velocity)?
SingleNoteOn ==
    /\ op = "single" /\ pc = "s_note_on"
    /\ Send(NoteOnEv(config.midi_channel, start_note, config.velocity, TRUE),
            NoteOnEv(config.midi_channel, start_note, config.velocity, FALSE),
            "s_gate")
    /\ UNCHANGED driverOnly

\* sleep(note_duration_ms)
SingleGate ==
    /\ op = "single" /\ pc = "s_gate"
    /\ Advance("s_note_off", Append(log, Sleep(config.note_duration_ms)))
    /\ UNCHANGED driverOnly

\* MidiManager::send_note_off(midi_conn, midi_channel, note, velocity)?
SingleNoteOff ==
    /\ op = "single" /\ pc = "s_note_off"
    /\ Send(NoteOffEv(config.midi_channel, start_note, config.velocity, TRUE),
            NoteOffEv(config.midi_channel, start_note, config.velocity, FALSE),
            "s_release")
    /\ UNCHANGED driverOnly

\* if release_time_ms > 0 { sleep(release_time_ms) }
SingleRelease ==
    /\ op = "single" /\ pc = "s_release"
    /\ SleepIfPositive(config.release_time_ms, "s_post_delay")
    /\ UNCHANGED driverOnly

\* if post_delay_ms > 0 { sleep(post_delay_ms) }
SinglePostDelay ==
    /\ op = "single" /\ pc = "s_post_delay"
    /\ SleepIfPositive(config.post_delay_ms, "s_complete_lock")
    /\ UNCHANGED driverOnly

\* recording_complete.lock()
SingleCompleteLock ==
    /\ op = "single" /\ pc = "s_complete_lock"
    /\ flag_lock = "none"
    /\ flag_lock' = "driver"
    /\ Advance("s_complete", log)
    /\ UNCHANGED <<inputVars, index, total_notes, samples, bufferVars, samples_lock,
                   cbVars, otherVars>>

\* *complete = true, and the guard's release
SingleComplete ==
    /\ op = "single" /\ pc = "s_complete"
    /\ recording_complete' = TRUE
    /\ flag_lock' = "none"
    /\ Advance("s_pause", Append(log, Step("complete")))
    /\ UNCHANGED <<inputVars, index, total_notes, samples, audio_samples,
                   recording_active, samples_lock, cbVars, otherVars>>

\* stream.pause()?
SinglePause ==
    /\ op = "single" /\ pc = "s_pause"
    /\ \E ok \in BOOLEAN :
        IF ok
        THEN /\ stream' = "paused"
             /\ pc' = "s_snap_lock"
             /\ log' = Append(log, Step("pause"))
             /\ UNCHANGED result
        ELSE Return("Err", log)
    /\ UNCHANGED driverOnly

\* audio_samples.lock()
SingleSnapLock ==
    /\ op = "single" /\ pc = "s_snap_lock"
    /\ samples_lock = "none"
    /\ samples_lock' = "driver"
    /\ Advance("s_snap", log)
    /\ UNCHANGED <<inputVars, index, total_notes, samples, bufferVars, flag_lock,
                   cbVars, otherVars>>

\* .clone(), the guard's release, and Ok(Sample { .. }): the stream goes out
\* of scope.
SingleSnap ==
    /\ op = "single" /\ pc = "s_snap"
    /\ samples' = <<[note |-> start_note,
                     velocity |-> config.velocity,
                     audio_data |-> audio_samples]>>
    /\ samples_lock' = "none"
    /\ Return("Ok", Append(log, Step("snapshot")))
    /\ UNCHANGED <<inputVars, index, total_notes, bufferVars, flag_lock, cbVars,
                   otherVars>>

(***************************************************************************)
(* The callback of build_recording_stream: the buffer's guard is taken     *)
(* first, the completion flag's inside it.                                 *)
(***************************************************************************)
\* The OS delivers a buffer: the f32 closure updates the levels first.
RecordingCbBegin ==
    /\ op = "single" /\ stream = "playing"
    /\ cb_pc = "idle" /\ cb_count < MaxCallbacks
    /\ cb_count' = cb_count + 1
    /\ cb_begun' = CallbackBegun
    /\ levels' = IF MetersFirst(sample_format) THEN UpdateLevels(cb_count')
                 ELSE levels
    /\ cb_pc' = "r_lock_samples"
    /\ UNCHANGED <<inputVars, pc, index, total_notes, samples, bufferVars, lockVars,
                   stream, log, result, restVars>>

\* samples.lock()
RecordingCbLockSamples ==
    /\ cb_pc = "r_lock_samples"
    /\ samples_lock = "none"
    /\ samples_lock' = "callback"
    /\ cb_pc' = "r_lock_complete"
    /\ UNCHANGED <<inputVars, pc, index, total_notes, samples, bufferVars,
                   flag_lock, stream, cb_count, cb_begun, log, result,
                   otherVars>>

\* complete.lock()
RecordingCbLockComplete ==
    /\ cb_pc = "r_lock_complete"
    /\ flag_lock = "none"
    /\ flag_lock' = "callback"
    /\ cb_pc' = "r_extend"
    /\ UNCHANGED <<inputVars, pc, index, total_notes, samples, bufferVars,
                   samples_lock, stream, cb_count, cb_begun, log, result,
                   otherVars>>

\* if !*recording_complete { audio_samples.extend_from_slice(data) }, and
\* both guards' release.  The i16 and u16 closures convert, update the
\* levels and then extend, all inside the if.
RecordingCbExtend ==
    /\ cb_pc = "r_extend"
    /\ levels' = IF ~MetersFirst(sample_format) /\ ~recording_complete
                 THEN UpdateLevels(cb_count) ELSE levels
    /\ audio_samples' = IF recording_complete THEN audio_samples
                        ELSE audio_samples \o CallbackData(cb_count)
    /\ cb_begun' = NoCallback
    /\ samples_lock' = "none"
    /\ flag_lock' = "none"
    /\ cb_pc' = "idle"
    /\ UNCHANGED <<inputVars, pc, index, total_notes, samples, recording_active,
                   recording_complete, stream, cb_count, log, result, restVars>>

SingleDriver ==
    \/ SingleRuntimeNew \/ SingleGetDevice \/ SingleBuildStream \/ SinglePlay
    \/ SinglePreDelay \/ SingleChannelPanic \/ SingleSettle
    \/ SingleNoteOn \/ SingleGate \/ SingleNoteOff \/ SingleRelease
    \/ SinglePostDelay \/ SingleCompleteLock \/ SingleComplete \/ SinglePause
    \/ SingleSnapLock \/ SingleSnap

RecordingCallback ==
    \/ RecordingCbBegin \/ RecordingCbLockSamples \/ RecordingCbLockComplete
    \/ RecordingCbExtend

RangeDriver ==
    \/ RangeRuntimeNew \/ RangeTotalNotes \/ RangeSetupPanic \/ RangeGetDevice
    \/ RangeBuildStream \/ RangePlay \/ RangeLoop
    \/ RangeClearLock \/ RangeClear \/ RangeArmLock \/ RangeArm
    \/ RangePreDelay \/ RangeChannelPanic \/ RangeSettle
    \/ RangeNoteOn \/ RangeGate \/ RangeNoteOff \/ RangeRelease \/ RangePostDelay
    \/ RangeDisarmLock \/ RangeDisarm \/ RangeSnapLock \/ RangeSnap \/ RangeGap
    \/ RangePause \/ RangeDrop \/ RangeFinalPanic

PersistentCallback ==
    \/ PersistentCbBegin \/ PersistentCbLockFlag \/ PersistentCbCheck
    \/ PersistentCbLockSamples \/ PersistentCbExtend

PanicIdle ==
    /\ p_pc = "idle" /\ p_channel = 0
    /\ p_fail = <<0, 0>> /\ p_log = <<>> /\ p_ok = <<>>
    /\ notes_sent = 0 /\ p_slept = 0 /\ p_result = "idle"

\* No detection is under way.
NoSample == [audio_data |-> <<>>, sample_rate |-> 0, channels |-> 0]
NoDetectionConfig ==
    [threshold_db |-> 0, window_size_ms |-> 0, min_sample_length_ms |-> 0,
     pre_trigger_ms |-> 0, post_trigger_ms |-> 0, confirmation_windows |-> 0]
DetectIdle ==
    /\ d_pc = "idle" /\ d_sample = NoSample /\ d_original = <<>>
    /\ d_config = NoDetectionConfig
    /\ d_result = [kind |-> "none"]

\* No export is under way.
NoExportConfig ==
    [apply_detection |-> FALSE, detection_config |-> NoDetectionConfig,
     sample_format |-> "none", fade_in_ms |-> 0, fade_out_ms |-> 0,
     normalize |-> FALSE]
ExportIdle ==
    /\ e_pc = "idle" /\ e_samples = <<>> /\ e_config = NoExportConfig
    /\ e_index = 0 /\ e_copy = <<>> /\ e_detection = [kind |-> "none"]
    /\ e_data = <<>> /\ exported_files = <<>> /\ e_disk = {}
    /\ e_groups = <<>>
    /\ e_failed_at = "none" /\ e_result = "idle"

\* No loop detection is under way.
NoLoopConfig ==
    [min_loop_length_ms |-> 0, max_loop_length_ms |-> 0, max_candidates |-> 0,
     correlation_threshold |-> 0, crossfade_ms |-> 0]
NoLoopResult == [success |-> FALSE, all_candidates |-> <<>>, failure_reason |-> ""]
LoopIdle ==
    /\ l_pc = "idle" /\ l_audio = <<>> /\ l_unit = "full" /\ l_sample_rate = 0
    /\ l_config = NoLoopConfig
    /\ zero_crossings = <<>> /\ l_candidates = <<>>
    /\ l_result = NoLoopResult
ConvertIdle ==
    /\ c_pc = "idle" /\ c_format = "F32"
    /\ c_data = <<>> /\ f32_samples = <<>> /\ c_buffer = <<>>
EncodeIdle ==
    /\ w_pc = "idle" /\ w_audio = <<>> /\ w_index = 0 /\ w_written = <<>>
    /\ w_result = "running" /\ w_reason = ""
CrossfadeIdle ==
    /\ x_pc = "idle" /\ x_audio = <<>> /\ x_original = <<>>
    /\ x_candidate = [start_sample |-> 0, end_sample |-> 0, length_samples |-> 0]
    /\ x_crossfade_ms = 0 /\ x_sample_rate = 0
SlotIdle ==
    /\ g_pc = "off" /\ g_command = "none" /\ MIDI_CONNECTION = "None"
    /\ g_held = "none" /\ g_worker = "none" /\ g_outcome = "none"
    /\ g_result = "none" /\ g_done = 0
MonitorIdle ==
    /\ MONITORING_ACTIVE = FALSE /\ MONITORING_THREAD = 0
    /\ GLOBAL_SAMPLING_ENGINE = 0
    /\ m_kind = <<>> /\ m_pc = <<>> /\ m_handle = <<>>
    /\ t_pc = <<>> /\ t_stream = <<>>
InstrumentIdle ==
    /\ i_pc = "off" /\ i_format = "none" /\ i_wav_files = <<>> /\ i_index = 0
    /\ i_samples = <<>> /\ i_groups = <<>> /\ i_result = "none"
\* No conversion and no GUI command is under way.
ExtraIdle == ConvertIdle /\ EncodeIdle /\ CrossfadeIdle /\ SlotIdle /\ MonitorIdle /\ InstrumentIdle

(***************************************************************************)
(* MidiManager::send_midi_panic, one step per iteration of its channel     *)
(* loops.                                                                  *)
(***************************************************************************)
\* Whether the k-th write of the sweep succeeds.
WriteOk(k) == ~(p_fail[1] > 0 /\ k % p_fail[1] = p_fail[2])

\* Whether a write's result ends the sweep: `let _ = conn.send(..)` and
\* `if conn.send(..).is_ok()` drop the error.
PanicWriteAborts_Propagated(ok) == ~ok

PanicWriteAborts(ok) == FALSE

\* Phase 1, one channel: All Notes Off, then All Sound Off.
PanicPhase1Messages(channel) ==
    << ControlChangeMsg(channel, CCAllNotesOff),
       ControlChangeMsg(channel, CCAllSoundOff) >>

\* Phase 2, one channel: a note-off with velocity 0 for every note, then
\* Reset All Controllers.
PanicPhase2Messages_NoReset(channel) ==
    [k \in 1..PanicNotes |-> <<StatusNoteOff + channel, k - 1, 0>>]

PanicPhase2Messages(channel) ==
    [k \in 1..(PanicNotes + 1) |->
        IF k <= PanicNotes THEN <<StatusNoteOff + channel, k - 1, 0>>
        ELSE ControlChangeMsg(channel, CCResetControllers)]

\* Phase 3, one channel: All Notes Off again.
PanicPhase3Messages(channel) ==
    << ControlChangeMsg(channel, CCAllNotesOff) >>

\* if note % 32 == 31 { sleep(1 ms) }, over the notes of one channel
PanicPhase2PauseMs ==
    Cardinality({n \in 0..(PanicNotes - 1) :
                    n % PanicNotePauseEvery = PanicNotePauseEvery - 1}) * PanicNotePauseMs

IsNoteOff(m) == m[1] >= StatusNoteOff /\ m[1] < StatusNoteOff + PanicChannels

\* The writes of one loop iteration: each message is attempted in turn; the
\* sweep goes on to `next` unless a write's result ends it.
PanicWrite(msgs, slept, next, next_channel) ==
    LET base == Len(p_log)
        bad == {j \in 1..Len(msgs) : PanicWriteAborts(WriteOk(base + j))}
        n == IF bad = {} THEN Len(msgs)
             ELSE CHOOSE j \in bad : \A i \in bad : j <= i
    IN /\ p_log' = p_log \o SubSeq(msgs, 1, n)
       /\ p_ok' = p_ok \o [j \in 1..n |-> WriteOk(base + j)]
       /\ notes_sent' = notes_sent +
              Cardinality({j \in 1..n : IsNoteOff(msgs[j]) /\ WriteOk(base + j)})
       /\ IF bad = {}
          THEN /\ p_pc' = next
               /\ p_channel' = next_channel
               /\ p_slept' = p_slept + slept
               /\ p_result' = IF next = "done" THEN "Ok" ELSE p_result
          ELSE /\ p_pc' = "done"
               /\ p_result' = "Err"
               /\ UNCHANGED <<p_channel, p_slept>>
       /\ UNCHANGED <<p_fail, sessionVars, extraVars, detectVars, exportVars, loopVars>>

LastChannel == p_channel = PanicChannels - 1

\* for channel in 0..16 { CC 123; CC 120 }; sleep(10 ms)
PanicPhase1 ==
    /\ p_pc = "phase1"
    /\ IF LastChannel
       THEN PanicWrite(PanicPhase1Messages(p_channel), PanicCCPauseMs, "phase2", 0)
       ELSE PanicWrite(PanicPhase1Messages(p_channel), 0, "phase1", p_channel + 1)

\* for channel in 0..16 { for note in 0..128 { note-off }; CC 121 }; sleep(5 ms)
PanicPhase2 ==
    /\ p_pc = "phase2"
    /\ IF LastChannel
       THEN PanicWrite(PanicPhase2Messages(p_channel),
                       PanicPhase2PauseMs + PanicFinalPauseMs, "phase3", 0)
       ELSE PanicWrite(PanicPhase2Messages(p_channel),
                       PanicPhase2PauseMs, "phase2", p_channel + 1)

\* for channel in 0..16 { CC 123 }; Ok(())
PanicPhase3 ==
    /\ p_pc = "phase3"
    /\ IF LastChannel
       THEN PanicWrite(PanicPhase3Messages(p_channel), 0, "done", p_channel)
       ELSE PanicWrite(PanicPhase3Messages(p_channel), 0, "phase3", p_channel + 1)

\* The failure patterns: no write fails, or every period-th write does.
FailPatterns ==
    {<<0, 0>>} \cup
    {<<period, phase>> \in (1..MaxFailPeriod) \X (0..MaxFailPeriod) : phase < period}

\* send_midi_panic(conn) called on its own, as by the GUI's panic command.
InitPanic ==
    /\ op = "panic"
    /\ overflow_checks = FALSE
    /\ config \in {c \in Configs : c.velocity = 100}
    /\ start_note = 0 /\ end_note = 0
    /\ cancel_at = 0
    /\ pc = "done"
    /\ index = 0 /\ total_notes = 0
    /\ samples = <<>> /\ audio_samples = <<>>
    /\ recording_active = FALSE /\ recording_complete = FALSE
    /\ samples_lock = "none" /\ flag_lock = "none"
    /\ stream = "none"
    /\ cb_pc = "idle" /\ cb_count = 0 /\ cb_begun = NoCallback
    /\ sample_format = "F32"
    /\ levels = 0
    /\ log = <<>>
    /\ result = "running"
    /\ p_pc = "phase1" /\ p_channel = 0
    /\ p_fail \in FailPatterns
    /\ p_log = <<>> /\ p_ok = <<>>
    /\ notes_sent = 0 /\ p_slept = 0 /\ p_result = "running"
    /\ DetectIdle
    /\ ExportIdle
    /\ LoopIdle
    /\ ExtraIdle

NextPanic == PanicPhase1 \/ PanicPhase2 \/ PanicPhase3

SpecPanic == InitPanic /\ [][NextPanic]_vars

(***************************************************************************)
(* Sample detection (crates/batcherbird-core/src/detection.rs).  A sample  *)
(* value is an amplitude in thousandths of full scale.                     *)
(***************************************************************************)
Min(a, b) == IF a <= b THEN a ELSE b
Max(a, b) == IF a >= b THEN a ELSE b

\* ((ms / 1000.0) * sample_rate as f32) as usize
MsToSamples(ms, sample_rate) == (ms * sample_rate) \div 1000

\* db_to_linear: 10^(db / 20), in thousandths.
DbToLinear(db) ==
    CASE db = -40 -> 10
      [] db = -20 -> 100
      [] OTHER -> 1000

RECURSIVE SumSquares(_)
SumSquares(window) ==
    IF window = <<>> THEN 0
    ELSE window[1] * window[1] + SumSquares(Tail(window))

\* An RMS value (sum_squares / len).sqrt(), kept as <<sum_squares, len>>.
Rms(window) == <<SumSquares(window), Len(window)>>

\* rms > threshold, for a threshold in thousandths
RmsAbove(rms, threshold) == rms[1] > threshold * threshold * rms[2]

\* Whether calculate_rms_windows panics: slice::windows(0), and
\* Iterator::step_by(0) for a window of one sample.
RmsWindowsPanic(audio_data, window_size) ==
    /\ window_size <= Len(audio_data)
    /\ (window_size = 0 \/ window_size \div 2 = 0)

\* calculate_rms_windows: one value for the whole buffer when the window is
\* longer than it, else a value per window, the windows half a window apart.
CalculateRmsWindows(audio_data, window_size) ==
    IF window_size > Len(audio_data) THEN <<Rms(audio_data)>>
    ELSE LET step == window_size \div 2
             count == ((Len(audio_data) - window_size) \div step) + 1
         IN [i \in 1..count |->
                Rms(SubSeq(audio_data, (i - 1) * step + 1,
                           (i - 1) * step + window_size))]

\* find_start_boundary without its second loop: no confirmed run gives 0.
FindStartBoundary_NoFallback(rms_values, threshold, confirmation_windows) ==
    LET n == Len(rms_values)
        above(i) == RmsAbove(rms_values[i + 1], threshold)
        confirmed == {i \in 0..(n - confirmation_windows) :
                         \A k \in i..(i + confirmation_windows - 1) : above(k)}
    IN IF confirmed # {} THEN CHOOSE i \in confirmed : \A j \in confirmed : i <= j
       ELSE 0

\* find_start_boundary, on window indices 0..n-1
FindStartBoundary(rms_values, threshold, confirmation_windows) ==
    LET n == Len(rms_values)
        above(i) == RmsAbove(rms_values[i + 1], threshold)
        run(i) == Cardinality({j \in i..(Min(n, i + confirmation_windows) - 1) :
                                  \A k \in i..j : above(k)})
        confirmed == {i \in 0..(n - 1) : run(i) >= confirmation_windows}
        loud == {i \in 0..(n - 1) : above(i)}
    IN IF confirmed # {} THEN CHOOSE i \in confirmed : \A j \in confirmed : i <= j
       ELSE IF loud # {} THEN CHOOSE i \in loud : \A j \in loud : i <= j
       ELSE 0

\* find_end_boundary with its runs counted forwards from i, as the start
\* rule counts them.
FindEndBoundary_Forward(rms_values, threshold, confirmation_windows, start_window) ==
    LET n == Len(rms_values)
        above(i) == RmsAbove(rms_values[i + 1], threshold)
        confirmed == {i \in start_window..(n - confirmation_windows) :
                         \A k \in i..(i + confirmation_windows - 1) : above(k)}
        loud == {i \in start_window..(n - 1) : above(i)}
    IN IF confirmed # {} THEN CHOOSE i \in confirmed : \A j \in confirmed : i >= j
       ELSE IF loud # {} THEN CHOOSE i \in loud : \A j \in loud : i >= j
       ELSE Max(0, n - 1)

\* find_end_boundary, searching backwards from the last window
FindEndBoundary(rms_values, threshold, confirmation_windows, start_window) ==
    LET n == Len(rms_values)
        above(i) == RmsAbove(rms_values[i + 1], threshold)
        run(i) == Cardinality({j \in Max(0, i - (confirmation_windows - 1))..i :
                                  \A k \in j..i : above(k)})
        confirmed == {i \in start_window..(n - 1) : run(i) >= confirmation_windows}
        loud == {i \in start_window..(n - 1) : above(i)}
    IN IF confirmed # {} THEN CHOOSE i \in confirmed : \A j \in confirmed : i >= j
       ELSE IF loud # {} THEN CHOOSE i \in loud : \A j \in loud : i >= j
       ELSE Max(0, n - 1)

\* if window_size_samples == 0 { return Err(..) }
WindowTooSmall_Unchecked(window_size_samples) == FALSE

WindowTooSmall(window_size_samples) == window_size_samples = 0

DetectionResult(start, end, dstart, dend, success, reason) ==
    [kind |-> "Ok", start_sample |-> start, end_sample |-> end,
     detected_start |-> dstart, detected_end |-> dend,
     success |-> success, failure_reason |-> reason]

\* detect_boundaries(audio_data, sample_rate): Ok(DetectionResult), Err, or
\* a panic; checks tells whether the build panics on integer overflow.
DetectBoundaries(audio_data, sample_rate, cfg, checks) ==
    LET len == Len(audio_data)
        window_size_samples == MsToSamples(cfg.window_size_ms, sample_rate)
        rms_values == CalculateRmsWindows(audio_data, window_size_samples)
        threshold_linear == DbToLinear(cfg.threshold_db)
        start_window ==
            FindStartBoundary(rms_values, threshold_linear, cfg.confirmation_windows)
        end_window ==
            FindEndBoundary(rms_values, threshold_linear, cfg.confirmation_windows,
                            start_window)
        detected_start_sample == start_window * window_size_samples
        detected_end_sample == Min((end_window + 1) * window_size_samples, len)
        pre_trigger_samples == MsToSamples(cfg.pre_trigger_ms, sample_rate)
        post_trigger_samples == MsToSamples(cfg.post_trigger_ms, sample_rate)
        final_start == Max(0, detected_start_sample - pre_trigger_samples)
        final_end == Min(detected_end_sample + post_trigger_samples, len)
        final_length_samples == (final_end - final_start) % UsizeMod
        min_length_samples == MsToSamples(cfg.min_sample_length_ms, sample_rate)
    IN IF audio_data = <<>>
       THEN DetectionResult(0, 0, 0, 0, FALSE, "Empty audio data")
       ELSE IF WindowTooSmall(window_size_samples)
       THEN [kind |-> "Err", error |-> "Window size too small"]
       ELSE IF RmsWindowsPanic(audio_data, window_size_samples)
       THEN [kind |-> "Panic"]
       ELSE IF final_end < final_start /\ checks
       THEN [kind |-> "Panic"]
       ELSE IF final_length_samples < min_length_samples
       THEN DetectionResult(0, len, detected_start_sample, detected_end_sample,
                            FALSE, "Sample too short after detection")
       ELSE DetectionResult(final_start, final_end, detected_start_sample,
                            detected_end_sample, TRUE, "")

\* trim_audio(audio_data, detection)
TrimAudio(audio_data, detection) ==
    LET start == Min(detection.start_sample, Len(audio_data))
        end == Min(detection.end_sample, Len(audio_data))
    IN IF ~detection.success THEN audio_data
       ELSE IF start >= end THEN audio_data
       ELSE SubSeq(audio_data, start + 1, end)

\* Sample::apply_detection: let detection_result = detect_boundaries(..)?
ApplyDetectionDetect ==
    /\ op = "detect" /\ d_pc = "detect"
    /\ d_result' = DetectBoundaries(d_sample.audio_data, d_sample.sample_rate,
                                    d_config, overflow_checks)
    /\ d_pc' = IF d_result'.kind = "Ok" /\ d_result'.success THEN "trim" ELSE "done"
    /\ UNCHANGED <<d_sample, d_original, d_config, sessionVars, extraVars, panicVars, exportVars,
                   loopVars>>

\* if detection_result.success { self.audio_data = trim_audio(..) }
ApplyDetectionTrim ==
    /\ op = "detect" /\ d_pc = "trim"
    /\ d_sample' = [d_sample EXCEPT !.audio_data = TrimAudio(@, d_result)]
    /\ d_pc' = "done"
    /\ UNCHANGED <<d_original, d_config, d_result, sessionVars, extraVars, panicVars,
                   exportVars, loopVars>>

\* The buffers detection is tried on: silence and full-scale samples.
RECURSIVE AudioBuffers(_)
AudioBuffers(n) ==
    IF n = 0 THEN {<<>>}
    ELSE AudioBuffers(n - 1) \cup
         {Append(a, v) : a \in {b \in AudioBuffers(n - 1) : Len(b) = n - 1},
                         v \in {0, 1000}}

\* Samples at two low sample rates, so that a window is a few samples long.
DetectSamples ==
    {[audio_data |-> a, sample_rate |-> sr, channels |-> ch] :
        a \in AudioBuffers(MaxAudioLen), sr \in {500, 1000}, ch \in {1, 2}}

\* Detection configs in the shape of DetectionConfig::default(), scaled to
\* these sample rates, among them a window of 0 ms and a minimum length no
\* buffer reaches.
DetectionConfigs ==
    { [threshold_db |-> -40, window_size_ms |-> 2, min_sample_length_ms |-> 2,
       pre_trigger_ms |-> 1, post_trigger_ms |-> 1, confirmation_windows |-> 1],
      [threshold_db |-> -40, window_size_ms |-> 4, min_sample_length_ms |-> 0,
       pre_trigger_ms |-> 0, post_trigger_ms |-> 0, confirmation_windows |-> 2],
      [threshold_db |-> -40, window_size_ms |-> 3, min_sample_length_ms |-> 1,
       pre_trigger_ms |-> 2, post_trigger_ms |-> 2, confirmation_windows |-> 1],
      [threshold_db |-> -40, window_size_ms |-> 1, min_sample_length_ms |-> 1,
       pre_trigger_ms |-> 0, post_trigger_ms |-> 1, confirmation_windows |-> 1],
      [threshold_db |-> -40, window_size_ms |-> 0, min_sample_length_ms |-> 2,
       pre_trigger_ms |-> 1, post_trigger_ms |-> 1, confirmation_windows |-> 3],
      [threshold_db |-> -20, window_size_ms |-> 4, min_sample_length_ms |-> 20,
       pre_trigger_ms |-> 0, post_trigger_ms |-> 2, confirmation_windows |-> 1] }

\* No sampling session is under way.
SessionIdle ==
    /\ config \in {c \in Configs : c.velocity = 100}
    /\ start_note = 0 /\ end_note = 0
    /\ cancel_at = 0
    /\ pc = "done"
    /\ index = 0 /\ total_notes = 0
    /\ samples = <<>> /\ audio_samples = <<>>
    /\ recording_active = FALSE /\ recording_complete = FALSE
    /\ samples_lock = "none" /\ flag_lock = "none"
    /\ stream = "none"
    /\ cb_pc = "idle" /\ cb_count = 0 /\ cb_begun = NoCallback
    /\ sample_format = "F32"
    /\ levels = 0
    /\ log = <<>>
    /\ result = "running"

\* sample.apply_detection(config) on a Sample whose audio_data holds whole
\* frames.
InitDetect ==
    /\ op = "detect"
    /\ overflow_checks \in BOOLEAN
    /\ SessionIdle
    /\ PanicIdle
    /\ d_pc = "detect"
    /\ d_sample \in {x \in DetectSamples : Len(x.audio_data) % x.channels = 0}
    /\ d_original = d_sample.audio_data
    /\ d_config \in DetectionConfigs
    /\ d_result = [kind |-> "none"]
    /\ ExportIdle
    /\ LoopIdle
    /\ ExtraIdle

NextDetect == ApplyDetectionDetect \/ ApplyDetectionTrim

SpecDetect == InitDetect /\ [][NextDetect]_vars

(***************************************************************************)
(* The exporter (crates/batcherbird-core/src/export.rs): export_samples     *)
(* and, for each Sample, export_sample.  A file on disk is recorded by the  *)
(* Sample it belongs to, the number of values written and whether the       *)
(* writer was finalized.                                                    *)
(***************************************************************************)
\* apply_fades(audio_data, sample_rate)
ApplyFades(audio_data, sample_rate, cfg) ==
    LET fade_in_samples == MsToSamples(cfg.fade_in_ms, sample_rate)
        fade_out_samples == MsToSamples(cfg.fade_out_ms, sample_rate)
        len == Len(audio_data)
        faded_in == [k \in 1..len |->
            IF fade_in_samples > 0 /\ fade_in_samples < len /\ k - 1 < fade_in_samples
            THEN (audio_data[k] * (k - 1)) \div fade_in_samples
            ELSE audio_data[k]]
    IN [k \in 1..len |->
            IF fade_out_samples > 0 /\ fade_out_samples < len
               /\ k - 1 >= len - fade_out_samples
            THEN (faded_in[k] * (len - (k - 1))) \div fade_out_samples
            ELSE faded_in[k]]

\* The peak amplitude of normalize_audio.
RECURSIVE Peak(_)
Peak(audio_data) ==
    IF audio_data = <<>> THEN 0
    ELSE Max(IF Head(audio_data) < 0 THEN -Head(audio_data) ELSE Head(audio_data),
             Peak(Tail(audio_data)))

\* normalize_audio(audio_data): a gain of 0.95 / peak
NormalizeAudio(audio_data) ==
    LET peak == Peak(audio_data)
    IN IF peak > 0 /\ peak < 1000
       THEN [k \in 1..Len(audio_data) |-> (audio_data[k] * 950) \div peak]
       ELSE audio_data

\* export_sample's processing of sample_copy.audio_data
ProcessAudio(audio_data, sample_rate, cfg) ==
    LET faded == IF cfg.fade_in_ms > 0 \/ cfg.fade_out_ms > 0
                 THEN ApplyFades(audio_data, sample_rate, cfg)
                 ELSE audio_data
    IN IF cfg.normalize THEN NormalizeAudio(faded) ELSE faded

\* The formats for which export_samples writes an instrument file.
PresetFormats == {"DecentSampler", "SFZ"}

\* Whether a detection error ends export_sample: the match on
\* apply_detection's result logs the error and goes on.
DetectionErrorAborts_Propagated(detection) == detection.kind = "Err"
DetectionErrorAborts(detection) == FALSE

\* Where export_samples goes after the Sample at index i.
AfterSample(i, n, cfg) ==
    IF i < n THEN "detect"
    ELSE IF cfg.sample_format \in PresetFormats THEN "preset"
    ELSE "done"

\* The call ends with the error of the step named.
ExportFails(step) ==
    /\ e_pc' = "done"
    /\ e_result' = "Err"
    /\ e_failed_at' = step

\* export_sample, up to the detection: sample.clone() and, if enabled,
\* sample_copy.apply_detection(detection_config)
ExportSampleDetect ==
    /\ op = "export" /\ e_pc = "detect"
    /\ LET sample == e_samples[e_index]
           detection == IF e_config.apply_detection
                        THEN DetectBoundaries(sample.audio_data, sample.sample_rate,
                                              e_config.detection_config,
                                              overflow_checks)
                        ELSE [kind |-> "skipped"]
       IN /\ e_detection' = detection
          /\ IF detection.kind = "Panic"
             THEN /\ e_pc' = "done"
                  /\ e_result' = "Panicked"
                  /\ e_failed_at' = "detect"
                  /\ UNCHANGED e_copy
             ELSE IF DetectionErrorAborts(detection)
             THEN /\ ExportFails("detect")
                  /\ UNCHANGED e_copy
             ELSE /\ e_copy' = IF detection.kind = "Ok" /\ detection.success
                               THEN TrimAudio(sample.audio_data, detection)
                               ELSE sample.audio_data
                  /\ e_pc' = "process"
                  /\ UNCHANGED <<e_result, e_failed_at>>
    /\ UNCHANGED <<e_samples, e_config, e_index, e_data, exported_files, e_disk,
                   e_groups, sessionVars, extraVars, panicVars, detectVars, loopVars>>

\* export_sample: the fades and the normalization
ExportSampleProcess ==
    /\ op = "export" /\ e_pc = "process"
    /\ e_data' = ProcessAudio(e_copy, e_samples[e_index].sample_rate, e_config)
    /\ e_pc' = "write"
    /\ UNCHANGED <<e_samples, e_config, e_index, e_copy, e_detection,
                   exported_files, e_groups, e_disk, e_failed_at, e_result,
                   sessionVars, extraVars, panicVars, detectVars, loopVars>>

\* The paths export_samples returns.
WavPath(i) == [kind |-> "wav", sample |-> i]
PresetPath == [kind |-> "preset", sample |-> 0]

\* What the filesystem does to one write_wav_file.
WriteOutcomes == {"ok", "create", "write_sample", "finalize", "metadata"}

\* The file write_wav_file leaves behind.
FileLeft(outcome, i, audio_data) ==
    CASE outcome = "create" -> {}
      [] outcome = "write_sample" ->
            {[sample |-> i, written |-> Len(audio_data) - 1, finalized |-> FALSE]}
      [] outcome = "finalize" ->
            {[sample |-> i, written |-> Len(audio_data), finalized |-> FALSE]}
      [] OTHER ->
            {[sample |-> i, written |-> Len(audio_data), finalized |-> TRUE]}

\* export_sample: write_wav_file(filepath, audio_data, sample)?, and the
\* loop of export_samples around it: let filepath = self.export_sample(sample)?
\* ends the call at the first Sample whose export fails
ExportSampleWrite ==
    /\ op = "export" /\ e_pc = "write"
    /\ IF e_data = <<>>
       THEN /\ ExportFails("write")
            /\ UNCHANGED <<e_index, exported_files, e_disk>>
       ELSE \E outcome \in WriteOutcomes :
            /\ e_disk' = e_disk \cup FileLeft(outcome, e_index, e_data)
            /\ IF outcome = "ok"
               THEN /\ exported_files' = Append(exported_files, WavPath(e_index))
                    /\ e_pc' = AfterSample(e_index, Len(e_samples), e_config)
                    /\ e_index' = IF e_index < Len(e_samples)
                                  THEN e_index + 1 ELSE e_index
                    /\ e_result' = IF e_pc' = "done" THEN "Ok" ELSE e_result
                    /\ UNCHANGED e_failed_at
               ELSE /\ ExportFails("write")
                    /\ UNCHANGED <<e_index, exported_files>>
    /\ UNCHANGED <<e_samples, e_config, e_copy, e_detection, e_data, e_groups,
                   sessionVars, extraVars, panicVars, detectVars, loopVars>>

\* The velocities of the Samples that have a wav file, ascending:
\* velocity_groups.keys(), sorted.
SortedVelocities(batch, wav_files) ==
    LET velocities == {batch[i].velocity :
                          i \in {j \in 1..Len(batch) : j - 1 < Len(wav_files)}}
        RECURSIVE Ascending(_)
        Ascending(vs) ==
            IF vs = {} THEN <<>>
            ELSE LET least == CHOOSE v \in vs : \A w \in vs : v <= w
                 IN <<least>> \o Ascending(vs \ {least})
    IN Ascending(velocities)

\* The velocity range of the layer at group_index (from 0) of layers many.
LayerRange(group_index, layers) ==
    IF layers = 1 THEN [lo_vel |-> 0, hi_vel |-> MaxVelocity]
    ELSE LET vel_range == MaxVelocity \div layers
         IN [lo_vel |-> Max(group_index * vel_range, 0),
             hi_vel |-> Min((group_index + 1) * vel_range, MaxVelocity)]

\* generate_dspreset_xml: one <group> per velocity, ascending, with a
\* <sample> for each Sample of that velocity.
DspresetGroups(batch, wav_files) ==
    LET sorted_velocities == SortedVelocities(batch, wav_files)
        layers == Len(sorted_velocities)
    IN [g \in 1..layers |->
          [velocity |-> sorted_velocities[g],
           lo_vel |-> LayerRange(g - 1, layers).lo_vel,
           hi_vel |-> LayerRange(g - 1, layers).hi_vel,
           samples |->
               SelectSeq([i \in 1..Min(Len(batch), Len(wav_files)) |->
                             [note |-> batch[i].note,
                              velocity |-> batch[i].velocity,
                              path |-> wav_files[i]]],
                         LAMBDA x : x.velocity = sorted_velocities[g])]]

\* export_samples: generate_dspreset_file / generate_sfz_file.  Of the two
\* only the groups of the .dspreset file are kept.
ExportPreset ==
    /\ op = "export" /\ e_pc = "preset"
    /\ \E written \in BOOLEAN :
         IF written
         THEN /\ e_groups' = IF e_config.sample_format = "DecentSampler"
                             THEN DspresetGroups(e_samples, exported_files)
                             ELSE <<>>
              /\ exported_files' = Append(exported_files, PresetPath)
              /\ e_pc' = "done"
              /\ e_result' = "Ok"
              /\ UNCHANGED e_failed_at
         ELSE /\ ExportFails("preset")
              /\ UNCHANGED <<exported_files, e_groups>>
    /\ UNCHANGED <<e_samples, e_config, e_index, e_copy, e_detection, e_data,
                   e_disk, sessionVars, extraVars, panicVars, detectVars, loopVars>>

\* The recordings a batch is made of: an empty one, a quiet note between
\* silences, a loud note with a silent tail, a short one.
ExportBuffers ==
    { <<>>, <<0, 0, 500, 500, 0, 0>>, <<1000, 1000, 0, 0>>, <<0, 500>> }

\* The Samples of one session: record_range gives them all its velocity.
ExportSamples ==
    {[note |-> 60, velocity |-> 100, audio_data |-> a, sample_rate |-> 1000,
      channels |-> 1] : a \in ExportBuffers}

\* The batches handed to export_samples.
RECURSIVE Batches(_)
Batches(n) ==
    IF n = 0 THEN {<<>>}
    ELSE Batches(n - 1) \cup
         {Append(b, x) : b \in {c \in Batches(n - 1) : Len(c) = n - 1},
                         x \in ExportSamples}

\* One config that detects and trims, one whose minimum length no buffer
\* reaches, one whose window is 0 ms.
ExportDetectionConfigs ==
    {c \in DetectionConfigs :
        \/ c.window_size_ms = 2
        \/ c.min_sample_length_ms = 20
        \/ c.window_size_ms = 0}

ExportConfigs ==
    {[apply_detection |-> d, detection_config |-> c, sample_format |-> f,
      fade_in_ms |-> fd, fade_out_ms |-> fd, normalize |-> n] :
        d \in BOOLEAN, c \in ExportDetectionConfigs,
        f \in {"Wav24Bit", "DecentSampler"}, fd \in {0, 2}, n \in BOOLEAN}

\* exporter.export_samples(samples)
InitExport ==
    /\ op = "export"
    /\ overflow_checks \in BOOLEAN
    /\ SessionIdle
    /\ PanicIdle
    /\ DetectIdle
    /\ LoopIdle
    /\ ExtraIdle
    /\ e_pc = "detect"
    /\ e_samples \in {b \in Batches(MaxBatch) : Len(b) >= 1}
    /\ e_config \in ExportConfigs
    /\ e_index = 1
    /\ e_copy = <<>> /\ e_detection = [kind |-> "none"]
    /\ e_data = <<>> /\ exported_files = <<>> /\ e_disk = {}
    /\ e_groups = <<>>
    /\ e_failed_at = "none" /\ e_result = "running"

NextExport ==
    ExportSampleDetect \/ ExportSampleProcess \/ ExportSampleWrite \/ ExportPreset

SpecExport == InitExport /\ [][NextExport]_vars

\* Samples of several notes and velocities.
PresetSamples ==
    {[note |-> n, velocity |-> v, audio_data |-> <<1000, 1000, 0, 0>>,
      sample_rate |-> 1000, channels |-> 1] : n \in {60, 61}, v \in {32, 64, 127}}

RECURSIVE PresetBatches(_)
PresetBatches(n) ==
    IF n = 0 THEN {<<>>}
    ELSE PresetBatches(n - 1) \cup
         {Append(b, x) : b \in {c \in PresetBatches(n - 1) : Len(c) = n - 1},
                         x \in PresetSamples}

\* export_samples in the DecentSampler format, once its loop has written the
\* wav file of every Sample as it is.
InitPreset ==
    /\ op = "export"
    /\ overflow_checks = FALSE
    /\ SessionIdle
    /\ PanicIdle
    /\ DetectIdle
    /\ LoopIdle
    /\ ExtraIdle
    /\ e_pc = "preset"
    /\ e_samples \in {b \in PresetBatches(MaxPresetSamples) : Len(b) >= 1}
    /\ e_config = [apply_detection |-> FALSE,
                   detection_config |-> CHOOSE c \in DetectionConfigs : c.window_size_ms = 2,
                   sample_format |-> "DecentSampler",
                   fade_in_ms |-> 0, fade_out_ms |-> 0, normalize |-> FALSE]
    /\ e_index = Len(e_samples)
    /\ e_copy = e_samples[e_index].audio_data
    /\ e_detection = [kind |-> "skipped"]
    /\ e_data = e_copy
    /\ exported_files = [i \in 1..Len(e_samples) |-> WavPath(i)]
    /\ e_disk = {[sample |-> i, written |-> Len(e_samples[i].audio_data),
                  finalized |-> TRUE] : i \in 1..Len(e_samples)}
    /\ e_groups = <<>>
    /\ e_failed_at = "none" /\ e_result = "running"

SpecPreset == InitPreset /\ [][ExportPreset]_vars

(***************************************************************************)
(* Loop detection (crates/batcherbird-core/src/loop_detection.rs).  A value *)
(* of audio_data is an integer number of units: a unit is full scale, or,   *)
(* for a "tiny" buffer, 1e-30 of it, so small that the f32 product of two   *)
(* values is 0.  Scores and correlations are in thousandths.                *)
(***************************************************************************)
\* The sign change find_zero_crossings looks for, between a value and the
\* next: 0 counts as not positive.
IsZeroCrossing_ZeroPositive(prev, cur) ==
    (prev < 0 /\ cur >= 0) \/ (prev >= 0 /\ cur < 0)
IsZeroCrossing(prev, cur) ==
    (prev <= 0 /\ cur > 0) \/ (prev > 0 /\ cur <= 0)

\* find_zero_crossings: the indices i in 1..len-1 (from 0) with a sign change
\* between audio_data[i-1] and audio_data[i], ascending.
RECURSIVE ZeroCrossingsFrom(_, _)
ZeroCrossingsFrom(audio_data, i) ==
    IF i >= Len(audio_data) THEN <<>>
    ELSE (IF IsZeroCrossing(audio_data[i], audio_data[i + 1]) THEN <<i>> ELSE <<>>)
         \o ZeroCrossingsFrom(audio_data, i + 1)
FindZeroCrossings(audio_data) == ZeroCrossingsFrom(audio_data, 1)

\* (sec * sample_rate as f32) as usize, for a length given in milliseconds
LoopLengthSamples(ms, sample_rate) == (ms * sample_rate) \div 1000

LoopCandidate(start, end) ==
    [start_sample |-> start, end_sample |-> end, length_samples |-> end - start,
     quality_score |-> 0, zero_crossing_aligned |-> TRUE, correlation |-> 0]

\* generate_loop_candidates: the loops over the pairs (i, j), i < j, of zero
\* crossings, from the pair (i, j) on; both loops end once max_candidates
\* candidates are there, which is looked at after each pair.
RECURSIVE CandidatesFrom(_, _, _, _, _, _)
CandidatesFrom(crossings, i, j, len, cfgSamples, candidates) ==
    IF i > Len(crossings) THEN candidates
    ELSE IF j > Len(crossings)
    THEN CandidatesFrom(crossings, i + 1, i + 2, len, cfgSamples, candidates)
    ELSE LET length == crossings[j] - crossings[i]
             pushed == IF /\ length >= cfgSamples.min_samples
                          /\ length <= cfgSamples.max_samples
                          /\ length < len
                       THEN Append(candidates,
                                   LoopCandidate(crossings[i], crossings[j]))
                       ELSE candidates
         IN IF Len(pushed) >= cfgSamples.max_candidates THEN pushed
            ELSE CandidatesFrom(crossings, i, j + 1, len, cfgSamples, pushed)

GenerateLoopCandidates(crossings, audio_data, sample_rate, cfg) ==
    CandidatesFrom(crossings, 1, 2, Len(audio_data),
                   [min_samples |-> LoopLengthSamples(cfg.min_loop_length_ms, sample_rate),
                    max_samples |-> LoopLengthSamples(cfg.max_loop_length_ms, sample_rate),
                    max_candidates |-> cfg.max_candidates],
                   <<>>)

\* The f32 product of two values of a buffer: 0 when both are tiny.
F32Mul(a, b, unit) == IF unit = "tiny" THEN 0 ELSE a * b

RECURSIVE SumSeq(_)
SumSeq(values) == IF values = <<>> THEN 0 ELSE Head(values) + SumSeq(Tail(values))

\* The largest r with r * r <= n, by bisection between lo and hi.
RECURSIVE ISqrtBetween(_, _, _)
ISqrtBetween(n, lo, hi) ==
    IF lo >= hi THEN lo
    ELSE LET mid == (lo + hi + 1) \div 2
         IN IF mid * mid <= n THEN ISqrtBetween(n, mid, hi)
            ELSE ISqrtBetween(n, lo, mid - 1)
ISqrt(n) == ISqrtBetween(n, 0, 46340)

\* (sum_sq1 * sum_sq2).sqrt(), in hundredths
CorrelationDenominator_Sum(sum_sq1, sum_sq2) == (sum_sq1 + sum_sq2) * 100
CorrelationDenominator(sum_sq1, sum_sq2) == ISqrt(sum_sq1 * sum_sq2 * 10000)

\* normalized_cross_correlation(window1, window2), in thousandths.  The
\* deviations from the means are kept multiplied by len, which leaves the
\* quotient as it is.
NormalizedCrossCorrelation(window1, window2, unit) ==
    LET len == Min(Len(window1), Len(window2))
        sum1 == SumSeq(SubSeq(window1, 1, len))
        sum2 == SumSeq(SubSeq(window2, 1, len))
        diff1(i) == len * window1[i] - sum1
        diff2(i) == len * window2[i] - sum2
        numerator == SumSeq([i \in 1..len |-> F32Mul(diff1(i), diff2(i), unit)])
        sum_sq1 == SumSeq([i \in 1..len |-> F32Mul(diff1(i), diff1(i), unit)])
        sum_sq2 == SumSeq([i \in 1..len |-> F32Mul(diff2(i), diff2(i), unit)])
        denominator == CorrelationDenominator(sum_sq1, sum_sq2)
        magnitude == IF numerator < 0 THEN -numerator ELSE numerator
    IN IF len < 2 THEN 0
       ELSE IF denominator > 0 THEN (magnitude * 100000) \div denominator
       ELSE 0

\* The windows calculate_region_correlation cuts out around a sample.
RegionWindowSize(audio_data) == Min(RegionWindowMax, Len(audio_data) \div 10)
RegionWindow(audio_data, sample) ==
    LET half == RegionWindowSize(audio_data) \div 2
        window_start == Max(0, sample - half)
        window_end == Min(sample + half, Len(audio_data))
    IN SubSeq(audio_data, window_start + 1, window_end)

\* calculate_region_correlation(audio_data, start_sample, end_sample)
CalculateRegionCorrelation(audio_data, start_sample, end_sample, unit) ==
    LET start_window == RegionWindow(audio_data, start_sample)
        end_window == RegionWindow(audio_data, end_sample)
    IN IF start_window = <<>> \/ end_window = <<>> THEN 0
       ELSE NormalizedCrossCorrelation(start_window, end_window, unit)

\* calculate_quality_score(candidate): 70 % correlation, 20 % alignment,
\* 10 % closeness of the length to IdealLoopLength, clamped to 0..1
CalculateQualityScore(candidate) ==
    LET length_ratio == Min((candidate.length_samples * 1000) \div IdealLoopLength,
                            (IdealLoopLength * 1000) \div candidate.length_samples)
        score == (candidate.correlation * 7) \div 10
                 + (IF candidate.zero_crossing_aligned THEN 200 ELSE 0)
                 + length_ratio \div 10
    IN Max(0, Min(score, 1000))

\* evaluate_candidates(candidates, audio_data)
EvaluateCandidates(candidates, audio_data, unit) ==
    [k \in 1..Len(candidates) |->
        LET correlated ==
                [candidates[k] EXCEPT !.correlation =
                    CalculateRegionCorrelation(audio_data, candidates[k].start_sample,
                                               candidates[k].end_sample, unit)]
        IN [correlated EXCEPT !.quality_score = CalculateQualityScore(correlated)]]

\* sort_by(|a, b| b.quality_score.partial_cmp(&a.quality_score)): a stable
\* sort, best first.
RECURSIVE InsertByQuality(_, _)
InsertByQuality(sorted, candidate) ==
    IF sorted = <<>> THEN <<candidate>>
    ELSE IF Head(sorted).quality_score >= candidate.quality_score
    THEN <<Head(sorted)>> \o InsertByQuality(Tail(sorted), candidate)
    ELSE <<candidate>> \o sorted
RECURSIVE SortByQuality(_)
SortByQuality(candidates) ==
    IF candidates = <<>> THEN <<>>
    ELSE InsertByQuality(SortByQuality(SubSeq(candidates, 1, Len(candidates) - 1)),
                         candidates[Len(candidates)])

\* The quality the best candidate has to exceed, in thousandths: the
\* literal 0.5, whatever the config says.
SuccessThreshold_Configured(cfg) == cfg.correlation_threshold

SuccessThreshold(cfg) == QualityThreshold

LoopFailure(reason) ==
    [success |-> FALSE, all_candidates |-> <<>>, failure_reason |-> reason]

\* detect_loop_points, step 1: find_zero_crossings
LoopFindZeroCrossings ==
    /\ op = "loop" /\ l_pc = "crossings"
    /\ zero_crossings' = FindZeroCrossings(l_audio)
    /\ IF Len(zero_crossings') < MinZeroCrossings
       THEN /\ l_result' = LoopFailure("Insufficient zero crossings found")
            /\ l_pc' = "done"
       ELSE /\ l_pc' = "candidates"
            /\ UNCHANGED l_result
    /\ UNCHANGED <<l_audio, l_unit, l_sample_rate, l_config, l_candidates,
                   sessionVars, extraVars, panicVars, detectVars, exportVars>>

\* detect_loop_points, step 2: generate_loop_candidates
LoopGenerateCandidates ==
    /\ op = "loop" /\ l_pc = "candidates"
    /\ l_candidates' = GenerateLoopCandidates(zero_crossings, l_audio,
                                              l_sample_rate, l_config)
    /\ IF l_candidates' = <<>>
       THEN /\ l_result' = LoopFailure("No valid loop candidates found")
            /\ l_pc' = "done"
       ELSE /\ l_pc' = "evaluate"
            /\ UNCHANGED l_result
    /\ UNCHANGED <<l_audio, l_unit, l_sample_rate, l_config, zero_crossings,
                   sessionVars, extraVars, panicVars, detectVars, exportVars>>

\* detect_loop_points, steps 3 and 4: evaluate, rank and return
LoopEvaluate ==
    /\ op = "loop" /\ l_pc = "evaluate"
    /\ LET evaluated_candidates ==
               SortByQuality(EvaluateCandidates(l_candidates, l_audio, l_unit))
           success == evaluated_candidates[1].quality_score > SuccessThreshold(l_config)
       IN l_result' = [success |-> success,
                       all_candidates |-> evaluated_candidates,
                       failure_reason |->
                           IF success THEN ""
                           ELSE "No high-quality loop candidates found"]
    /\ l_pc' = "done"
    /\ UNCHANGED <<l_audio, l_unit, l_sample_rate, l_config, zero_crossings,
                   l_candidates, sessionVars, extraVars, panicVars, detectVars, exportVars>>

\* One period of a waveform: up to four values of -1, 0 and 1.
RECURSIVE Patterns(_)
Patterns(n) ==
    IF n = 0 THEN {<<>>}
    ELSE Patterns(n - 1) \cup
         {Append(p, v) : p \in {q \in Patterns(n - 1) : Len(q) = n - 1},
                         v \in {-1, 0, 1}}

RECURSIVE Repeat(_, _)
Repeat(pattern, n) == IF n = 0 THEN <<>> ELSE pattern \o Repeat(pattern, n - 1)

\* The recordings loop detection is tried on: a period repeated.
LoopBuffers ==
    {Repeat(p, n) : p \in {q \in Patterns(4) : Len(q) >= 2}, n \in 1..MaxRepeats}

\* The values of correlation_threshold tried, in thousandths: the default
\* and one below the quality a candidate needs.
CorrelationThresholds == {800, 300}

\* LoopDetectionConfig::default() scaled to these lengths, a config that
\* takes few candidates of a narrow range of lengths, and one that asks for
\* no candidate at all.
LoopConfigs ==
    UNION { { [min_loop_length_ms |-> 2, max_loop_length_ms |-> 4000,
               max_candidates |-> 20, correlation_threshold |-> t,
               crossfade_ms |-> 10],
              [min_loop_length_ms |-> 10, max_loop_length_ms |-> 20,
               max_candidates |-> 3, correlation_threshold |-> t,
               crossfade_ms |-> 10],
              [min_loop_length_ms |-> 2, max_loop_length_ms |-> 4000,
               max_candidates |-> 0, correlation_threshold |-> t,
               crossfade_ms |-> 10] } : t \in CorrelationThresholds }

\* detector.detect_loop_points(audio_data, sample_rate)
InitLoop ==
    /\ op = "loop"
    /\ overflow_checks = FALSE
    /\ SessionIdle
    /\ PanicIdle
    /\ DetectIdle
    /\ ExportIdle
    /\ ExtraIdle
    /\ l_pc = "crossings"
    /\ l_audio \in LoopBuffers
    /\ l_unit \in {"full", "tiny"}
    /\ l_sample_rate = 1000
    /\ l_config \in LoopConfigs
    /\ zero_crossings = <<>> /\ l_candidates = <<>>
    /\ l_result = NoLoopResult

NextLoop == LoopFindZeroCrossings \/ LoopGenerateCandidates \/ LoopEvaluate

SpecLoop == InitLoop /\ [][NextLoop]_vars

InitRange ==
    /\ op = "range"
    /\ overflow_checks \in BOOLEAN
    /\ config \in Configs
    /\ \E r \in RangeInputs : start_note = r[1] /\ end_note = r[2]
    /\ cancel_at = 0
    /\ pc = "rt_new"
    /\ index = 0 /\ total_notes = 0
    /\ samples = <<>> /\ audio_samples = <<>>
    /\ recording_active = FALSE /\ recording_complete = FALSE
    /\ samples_lock = "none" /\ flag_lock = "none"
    /\ stream = "none"
    /\ cb_pc = "idle" /\ cb_count = 0 /\ cb_begun = NoCallback
    /\ levels = 0
    /\ log = <<>>
    /\ result = "running"
    /\ PanicIdle
    /\ DetectIdle
    /\ ExportIdle
    /\ LoopIdle
    /\ ExtraIdle

\* sample_single_note_blocking(midi_conn, note): no u8 arithmetic, so the
\* build makes no difference.
InitSingle ==
    /\ op = "single"
    /\ overflow_checks = FALSE
    /\ config \in Configs
    /\ start_note \in SingleNotes /\ end_note = start_note
    /\ cancel_at = 0
    /\ pc = "rt_new"
    /\ index = 0 /\ total_notes = 0
    /\ samples = <<>> /\ audio_samples = <<>>
    /\ recording_active = FALSE /\ recording_complete = FALSE
    /\ samples_lock = "none" /\ flag_lock = "none"
    /\ stream = "none"
    /\ cb_pc = "idle" /\ cb_count = 0 /\ cb_begun = NoCallback
    /\ levels = 0
    /\ log = <<>>
    /\ result = "running"
    /\ PanicIdle
    /\ DetectIdle
    /\ ExportIdle
    /\ LoopIdle
    /\ ExtraIdle

\* The input device delivers f32 frames.
Init ==
    /\ InitRange \/ InitSingle
    /\ sample_format = "F32"

(***************************************************************************)
(* A range session during which its caller wishes to cancel.  The caller   *)
(* (record_range) waits on a channel for the session's result; the session *)
(* takes no cancel token and reads no flag, so the signal changes nothing  *)
(* the driver looks at.                                                    *)
(***************************************************************************)
\* The user asks to stop while the notes are being recorded.
CancelSignal ==
    /\ op = "range" /\ pc \in NotePcs
    /\ cancel_at = 0
    /\ cancel_at' = Len(log)
    /\ UNCHANGED <<op, overflow_checks, config, start_note, end_note,
                   sample_format, pc, index,
                   total_notes, samples, bufferVars, lockVars, cbVars, stream,
                   log, result, otherVars>>

\* sample_note_range_blocking(60, 60) and (60, 61) with the default config.
InitCancel ==
    /\ InitRange
    /\ sample_format = "F32"
    /\ ~overflow_checks
    /\ config.velocity = 100
    /\ start_note = 60 /\ end_note \in start_note..(start_note + MaxNotes - 1)

NextCancel == RangeDriver \/ PersistentCallback \/ CancelSignal

SpecCancel == InitCancel /\ [][NextCancel]_vars

Next == RangeDriver \/ PersistentCallback \/ SingleDriver \/ RecordingCallback

Spec == Init /\ [][Next]_vars

\* Sessions with the default config on a device of each sample format.
InitLevels ==
    /\ InitRange \/ InitSingle
    /\ sample_format \in SampleFormats
    /\ ~overflow_checks
    /\ config.velocity = 100
    /\ start_note = 60 /\ end_note = 60

SpecLevels == InitLevels /\ [][Next]_vars

(***************************************************************************)
(* Properties of the range session.                                        *)
(***************************************************************************)
\* The call a log entry stands for: its kind and its arguments.
Call(e) == <<e.t, e.a, e.b, e.c>>
Calls(l) == [i \in 1..Len(l) |-> Call(l[i])]
WithoutZeroSleeps(l) == SelectSeq(l, LAMBDA c : ~(c[1] = "sleep" /\ c[2] = 0))

\* The steps the log holds for the k-th note of the range: from its clear to
\* its snapshot, or to where the function returned.
NoteSteps(k) ==
    LET first == PosOf(log, "clear", k)
        snap == PosOf(log, "snapshot", k)
        last == IF snap # 0 THEN snap
                ELSE IF log[Len(log)].t = "drop" THEN Len(log) - 1 ELSE Len(log)
    IN Calls(SubSeq(log, first, last))

\* The per-note protocol for one note; a sleep of 0 ms is no step.
ProtocolSteps(note) ==
    WithoutZeroSleeps(
        << <<"clear", 0, 0, 0>>,
           <<"arm", 0, 0, 0>>,
           <<"sleep", config.pre_delay_ms, 0, 0>>,
           <<"cc", config.midi_channel, 123, 0>>,
           <<"cc", config.midi_channel, 121, 0>>,
           <<"sleep", 50, 0, 0>>,
           <<"note_on", config.midi_channel, note, config.velocity>>,
           <<"sleep", config.note_duration_ms, 0, 0>>,
           <<"note_off", config.midi_channel, note, config.velocity>>,
           <<"sleep", config.release_time_ms, 0, 0>>,
           <<"sleep", config.post_delay_ms, 0, 0>>,
           <<"disarm", 0, 0, 0>>,
           <<"snapshot", 0, 0, 0>> >>)

IsPrefix(a, b) == Len(a) <= Len(b) /\ a = SubSeq(b, 1, Len(a))

\* C1: in a range session the steps taken for every note are, in this order
\* and with none left out, clear the buffer, arm, sleep pre_delay_ms, channel
\* panic (CC 123, CC 121), sleep 50 ms, Note-On, sleep note_duration_ms,
\* Note-Off, sleep release_time_ms, sleep post_delay_ms, disarm, snapshot: the
\* steps of a note under way are a prefix of that list, and every note that
\* gave a Sample took all of them.
PerNoteProtocol ==
    op = "range" =>
        /\ Count(log, "snapshot") = Len(samples)
        /\ Count(log, "clear") \in {Len(samples), Len(samples) + 1}
        /\ \A k \in 1..Count(log, "clear") :
              /\ IsPrefix(NoteSteps(k), ProtocolSteps(start_note + k - 1))
              /\ k <= Len(samples) =>
                    NoteSteps(k) = ProtocolSteps(start_note + k - 1)

\* A session that recorded two notes with a pre-roll, and returned.
PerNoteProtocolWitness ==
    /\ op = "range" /\ pc = "done" /\ result = "Ok"
    /\ Len(samples) >= 2
    /\ config.pre_delay_ms > 0

\* C2: in a range session one input stream is built and started and one is
\* stopped, whatever the number of notes: while the notes are recorded the
\* one stream stays playing, and a session that began it has dropped it once
\* when it returns.
OneStreamPerSession ==
    op = "range" =>
        /\ \A t \in {"build", "play", "pause", "drop"} : Count(log, t) <= 1
        /\ pc \in NotePcs =>
              /\ stream = "playing"
              /\ Count(log, "build") = 1 /\ Count(log, "play") = 1
              /\ Count(log, "pause") = 0 /\ Count(log, "drop") = 0
        /\ pc = "done" => Count(log, "drop") = Count(log, "build")
        /\ (pc = "done" /\ result = "Ok") =>
              /\ \A t \in {"build", "play", "pause", "drop"} : Count(log, t) = 1
              /\ stream = "dropped"

\* A session of two notes that returned.
OneStreamPerSessionWitness ==
    /\ op = "range" /\ pc = "done" /\ result = "Ok"
    /\ Len(samples) >= 2
    /\ Count(log, "build") = 1

\* C3: whenever recording_active goes from false to true the recording
\* buffer is empty, under every interleaving of the callback and the driver.
BufferEmptyWhenArmed ==
    [][(op = "range" /\ ~recording_active /\ recording_active')
          => (audio_samples = <<>> /\ audio_samples' = <<>>)]_vars

\* The second note has just been armed, after a first note whose buffer held
\* frames, while a callback is under way.
BufferEmptyWhenArmedWitness ==
    /\ op = "range" /\ pc = "pre_delay" /\ index >= 1
    /\ recording_active
    /\ samples[1].audio_data # <<>>
    /\ audio_samples = <<>>
    /\ cb_pc # "idle"

\* The entries of the log that wrote, or tried to write, to the MIDI port,
\* and those that opened a stream.
IsMidi(e) == e.t \in {"panic", "cc", "note_on", "note_off"}
IsStreamOpen(e) == e.t \in {"build", "play"}
NoInputOutput == \A i \in 1..Len(log) : ~IsMidi(log[i]) /\ ~IsStreamOpen(log[i])

\* C6 as stated: when a channel panic, Note-On or Note-Off write fails in a
\* range session, the session returns the error and a full panic sweep is
\* attempted after the failed write, before it returns.
PanicAfterFailedWrite ==
    (op = "range" /\ pc = "done") =>
        \A i \in 1..Len(log) :
            ~log[i].ok =>
                /\ result = "Err"
                /\ \E j \in (i + 1)..Len(log) : log[j].t = "panic"

\* C7: when sample_single_note or sample_note_range has returned, by any
\* path, the input stream it opened is released.
StreamReleasedOnReturn ==
    (op \in {"range", "single"} /\ pc = "done") =>
        /\ stream \in {"none", "dropped"}
        /\ Count(log, "drop") = Count(log, "build")

\* A session that returned an error after a failed MIDI write, its stream
\* having been playing.
StreamReleasedOnReturnWitness ==
    /\ pc = "done" /\ result = "Err"
    /\ stream = "dropped"
    /\ Count(log, "play") = 1 /\ Count(log, "pause") = 0
    /\ \E i \in 1..Len(log) : ~log[i].ok

\* C8 as stated: sample_note_range with start_note > end_note or end_note >
\* 127 returns an error before any MIDI message is sent and before a stream
\* is opened, and computes no note count.
InvalidRangeRejected ==
    (op = "range" /\ (start_note > end_note \/ end_note > 127)) =>
        /\ NoInputOutput
        /\ pc \notin {"setup_panic"} \cup NotePcs
        /\ pc = "done" => result = "Err"

\* C9 as stated: a note above 127 or a velocity outside 1..127 is rejected
\* with an error before any MIDI message is sent or a stream is opened.
InvalidNoteOrVelocityRejected ==
    ( \/ op = "single" /\ (start_note > 127 \/ config.velocity \notin 1..127)
      \/ /\ op = "range" /\ start_note <= end_note /\ end_note <= 127
         /\ config.velocity \notin 1..127 ) =>
        /\ NoInputOutput
        /\ pc = "done" => result = "Err"

\* The Note-Ons and Note-Offs written, and the inter-note gaps slept.
NoteOns == Count(log, "note_on")
NoteOffs == Count(log, "note_off")
Gaps == Len(SelectSeq(log, LAMBDA e : e.t = "sleep" /\ e.a = InterNoteGapMs))

\* C10 as stated: a sample_note_range that returns Ok returns end_note -
\* start_note + 1 Samples in ascending pitch order, the i-th with pitch
\* start_note + i and the configured velocity, having written one Note-On and
\* one Note-Off per note and slept one gap fewer than there are notes.
RangeResult ==
    (op = "range" /\ pc = "done" /\ result = "Ok") =>
        LET n == end_note - start_note + 1
        IN /\ Len(samples) = n
           /\ \A i \in 1..Len(samples) :
                 /\ samples[i].note = start_note + (i - 1)
                 /\ samples[i].velocity = config.velocity
           /\ NoteOns = n /\ NoteOffs = n
           /\ Gaps = n - 1

\* The same for the ranges with start_note <= end_note.
RangeResultOrdered ==
    start_note <= end_note => RangeResult

(***************************************************************************)
(* Timing of the range session: the milliseconds the driver sleeps.        *)
(***************************************************************************)
RECURSIVE SleptMs(_)
\* The milliseconds slept by the steps of a log.
SleptMs(l) ==
    IF l = <<>> THEN 0
    ELSE (IF l[1].t = "sleep" THEN l[1].a ELSE 0) + SleptMs(Tail(l))

\* The steps of the log from the k-th step of kind t1 to the next step of
\* kind t2 after it (to the end of the log when there is none).
Between(t1, k, t2) ==
    LET from == PosOf(log, t1, k)
        to == {j \in (from + 1)..Len(log) : log[j].t = t2}
    IN SubSeq(log, from, IF to = {} THEN Len(log)
                         ELSE CHOOSE j \in to : \A i \in to : j <= i)

\* pre_delay_ms + note_duration_ms + release_time_ms + post_delay_ms
NominalMs ==
    config.pre_delay_ms + config.note_duration_ms
        + config.release_time_ms + config.post_delay_ms

\* C11 as stated: for every Sample produced, recording was armed for
\* pre_delay_ms + note_duration_ms + release_time_ms + post_delay_ms
\* milliseconds, the interval that decides the number of frames captured: in
\* a range session from the note's arm to its disarm, in a single-note
\* session from the start of the stream to the completion flag.
ArmedIntervalNominal ==
    /\ op = "range" =>
          \A k \in 1..Len(samples) :
              SleptMs(Between("arm", k, "disarm")) = NominalMs
    /\ (op = "single" /\ Len(samples) = 1) =>
          SleptMs(Between("play", 1, "complete")) = NominalMs

\* Between the Note-Off of a note and its disarming the driver sleeps at
\* least release_time_ms + post_delay_ms.
TailTiming ==
    op = "range" =>
        \A k \in 1..Count(log, "disarm") :
            SleptMs(Between("note_off", k, "disarm"))
                >= config.release_time_ms + config.post_delay_ms

\* From the Note-Off to the snapshot nothing is taken out of the buffer, and
\* the snapshot is the buffer.
KeptUntilSnapshot ==
    (op = "range" /\ pc \in TailPcs \cup {"snap_lock", "snap"}) =>
        /\ IsPrefix(audio_samples, audio_samples')
        /\ pc = "snap" /\ pc' # pc =>
              samples'[Len(samples')].audio_data = audio_samples

\* A callback that ends while the driver sleeps has appended its whole
\* buffer to the recording buffer.
AppendedWhole ==
    /\ cb_pc # "idle" /\ cb_pc' = "idle"
    /\ audio_samples' = audio_samples \o CallbackData(cb_count)
    /\ pc' = pc

\* C12 as stated: at least release_time_ms + post_delay_ms elapse between
\* the Note-Off and the moment recording_active is set to false, and every
\* buffer the OS delivers to the callback in that interval is part of the
\* Sample: its callback ends by appending it while the interval lasts, and
\* it stays in the buffer until the snapshot.
TailBuffersCaptured ==
    /\ []TailTiming
    /\ [][/\ KeptUntilSnapshot
          /\ (op = "range" /\ cb_begun.phase = "tail"
                 /\ cb_pc # "idle" /\ cb_pc' = "idle") =>
                (AppendedWhole /\ pc \in TailPcs /\ index = cb_begun.index)]_vars

\* A callback that has read the flag as true holds the flag's mutex until
\* it has appended, so the flag stays true and no snapshot is taken (unless
\* a failed MIDI write has ended the session).
ReadTrueHoldsFlag ==
    (op = "range" /\ cb_pc \in {"p_lock_samples", "p_extend"}) =>
        /\ recording_active /\ flag_lock = "callback"
        /\ \/ pc \in HeadPcs \cup {"release", "post_delay", "disarm_lock"}
           \/ pc = "done" /\ result = "Err"

\* C12, amended: at least release_time_ms + post_delay_ms elapse between the
\* Note-Off and the moment recording_active is set to false, and every buffer
\* whose callback reads recording_active in that interval is part of the
\* Sample: the callback reads true, appends the whole buffer before the flag
\* can be set to false, and the buffer is kept until the snapshot.
ReleaseTailCaptured ==
    /\ [](TailTiming /\ ReadTrueHoldsFlag)
    /\ [][/\ KeptUntilSnapshot
          /\ (op = "range" /\ cb_pc = "p_check" /\ cb_pc' # "p_check"
                 /\ pc \in TailPcs) => cb_pc' = "p_lock_samples"
          /\ (op = "range" /\ cb_pc = "p_extend" /\ cb_pc' # "p_extend") =>
                AppendedWhole]_vars

\* A buffer delivered during the release sleep is being appended while the
\* driver waits in the post delay.
ReleaseTailCapturedWitness ==
    /\ op = "range" /\ pc = "post_delay"
    /\ config.release_time_ms > 0
    /\ cb_pc = "p_extend" /\ cb_begun.phase = "tail"
    /\ audio_samples # <<>>

\* C13 as stated: between two consecutive notes of a range recording_active
\* is false for at least the 300 ms gap plus the channel panic's settle time
\* (the panic's own writes take no modelled time), and the buffer is cleared
\* before recording is armed again.
QuietGapBetweenNotes ==
    op = "range" =>
        \A k \in 1..Count(log, "disarm") :
            PosOf(log, "arm", k + 1) # 0 =>
                LET quiet == Between("disarm", k, "arm")
                IN /\ SleptMs(quiet) >= InterNoteGapMs + PanicSettleMs
                   /\ Count(quiet, "clear") = 1

\* C14: a range session that returns Ok has sent the full panic sweep twice:
\* once in its setup, before the stream is built and before the first
\* Note-On, and once in its teardown, after the stream is paused and dropped
\* and after the last Note-Off; at no time is a Note-On or Note-Off sent
\* before the first sweep or after the second.
PanicBracket ==
    op = "range" =>
        /\ Count(log, "panic") <= 2
        /\ \A i \in 1..Len(log) :
              log[i].t \in {"note_on", "note_off", "cc", "build", "play"} =>
                  /\ PosOf(log, "panic", 1) \in 1..(i - 1)
                  /\ PosOf(log, "panic", 2) \in {0} \cup ((i + 1)..Len(log))
        /\ (pc = "done" /\ result = "Ok") =>
              /\ Count(log, "panic") = 2
              /\ PosOf(log, "panic", 1) < PosOf(log, "build", 1)
              /\ PosOf(log, "pause", 1) < PosOf(log, "drop", 1)
              /\ PosOf(log, "drop", 1) < PosOf(log, "panic", 2)
              /\ PosOf(log, "panic", 2) = Len(log)

\* A session of two notes that returned Ok: two sweeps bracket four note
\* events.
PanicBracketWitness ==
    /\ op = "range" /\ pc = "done" /\ result = "Ok"
    /\ NoteOns = 2 /\ NoteOffs = 2
    /\ log[1].t = "panic" /\ log[Len(log)].t = "panic"

(***************************************************************************)
(* Cancellation.                                                           *)
(***************************************************************************)
\* C15 as stated: once a cancel has been signalled during a range session,
\* the driver stops at its next sleep: no Note-On is written after a sleep
\* that follows the signal, and the session returns Ok with the Samples
\* taken so far (at most the note under way is added), recording_active
\* false and a panic sweep as its last step.
CancelStopsSession ==
    (op = "range" /\ cancel_at > 0) =>
        /\ \A i \in (cancel_at + 1)..Len(log) :
              log[i].t = "note_on" =>
                  \A j \in (cancel_at + 1)..(i - 1) : log[j].t # "sleep"
        /\ pc = "done" =>
              /\ result = "Ok"
              /\ ~recording_active
              /\ log[Len(log)].t = "panic"
              /\ Len(samples) <= Count(SubSeq(log, 1, cancel_at), "clear")

(***************************************************************************)
(* Properties of sample detection.                                         *)
(***************************************************************************)
\* The window length detection works with.
WindowSizeSamples == MsToSamples(d_config.window_size_ms, d_sample.sample_rate)

\* C17 as stated: for a non-empty buffer, a window of at least one sample
\* and at least one confirmation window, detect_boundaries completes without
\* a panic, and a successful result has
\* 0 <= start_sample <= detected_start <= detected_end <= end_sample <= len.
DetectionBoundsOrdered ==
    ( /\ op = "detect" /\ d_pc \in {"trim", "done"}
      /\ d_original # <<>>
      /\ WindowSizeSamples >= 1
      /\ d_config.confirmation_windows >= 1 ) =>
        /\ d_result.kind # "Panic"
        /\ (d_result.kind = "Ok" /\ d_result.success) =>
              /\ 0 <= d_result.start_sample
              /\ d_result.start_sample <= d_result.detected_start
              /\ d_result.detected_start <= d_result.detected_end
              /\ d_result.detected_end <= d_result.end_sample
              /\ d_result.end_sample <= Len(d_original)

\* C18 as stated: for a Sample of two or more channels, after a successful
\* detection the trimmed audio_data still holds whole frames: the region
\* kept starts at a multiple of channels and its length is a multiple of
\* channels.
TrimKeepsFrames ==
    ( /\ op = "detect" /\ d_pc = "done"
      /\ d_sample.channels >= 2
      /\ d_result.kind = "Ok" /\ d_result.success ) =>
        /\ Len(d_sample.audio_data) % d_sample.channels = 0
        /\ d_sample.audio_data # d_original =>
              d_result.start_sample % d_sample.channels = 0

\* C19 as stated: when the window length is 0 samples, detection fails with
\* the window-too-small error whatever the buffer, the error is returned by
\* apply_detection, and audio_data is left as it was.
WindowTooSmallRejected ==
    (op = "detect" /\ d_pc = "done" /\ WindowSizeSamples = 0) =>
        /\ d_result.kind = "Err"
        /\ d_result.error = "Window size too small"
        /\ d_sample.audio_data = d_original

\* C19, amended: when the window length is 0 samples, detection of a
\* non-empty buffer fails with the window-too-small error, returned by
\* apply_detection; an empty buffer gives Ok with success = false ("Empty
\* audio data") instead; audio_data is left as it was in both cases.
WindowTooSmallRejectedNonEmpty ==
    (op = "detect" /\ d_pc = "done" /\ WindowSizeSamples = 0) =>
        /\ d_original # <<>> =>
              /\ d_result.kind = "Err"
              /\ d_result.error = "Window size too small"
        /\ d_original = <<>> =>
              /\ d_result.kind = "Ok" /\ ~d_result.success
              /\ d_result.failure_reason = "Empty audio data"
        /\ d_sample.audio_data = d_original

\* A window of 1 ms at 500 Hz is 0 samples long: detection of a buffer with
\* signal has returned the error.
WindowTooSmallRejectedWitness ==
    /\ op = "detect" /\ d_pc = "done"
    /\ d_config.window_size_ms > 0 /\ WindowSizeSamples = 0
    /\ Len(d_original) >= 2 /\ \E i \in 1..Len(d_original) : d_original[i] # 0
    /\ d_result.kind = "Err"

\* The RMS trace of the buffer detection was called on, its threshold and
\* the windows of the trace above it (window indices from 0).
RmsTrace == CalculateRmsWindows(d_original, WindowSizeSamples)
ThresholdLinear == DbToLinear(d_config.threshold_db)
LoudWindows ==
    {i \in 0..(Len(RmsTrace) - 1) : RmsAbove(RmsTrace[i + 1], ThresholdLinear)}
\* Detection got as far as the RMS trace.
TraceAnalysed ==
    /\ op = "detect" /\ d_pc \in {"trim", "done"}
    /\ d_original # <<>>
    /\ WindowSizeSamples >= 1
    /\ ~RmsWindowsPanic(d_original, WindowSizeSamples)
    /\ d_config.confirmation_windows >= 1

\* C21 as stated: for a non-empty buffer with no RMS window above the
\* threshold, detection reports success = false with the reason "Sample too
\* short after detection" or "no signal", and audio_data is left untrimmed
\* for the exporter.
SilenceReportedNoSignal ==
    (TraceAnalysed /\ LoudWindows = {} /\ d_pc = "done") =>
        /\ d_result.kind = "Ok"
        /\ ~d_result.success
        /\ d_result.failure_reason \in {"Sample too short after detection",
                                        "no signal"}
        /\ d_sample.audio_data = d_original

\* The windows i at which a run of C windows above the threshold starts, and
\* those at which one ends.
RunStarts ==
    {i \in 0..(Len(RmsTrace) - 1) :
        /\ i + d_config.confirmation_windows - 1 <= Len(RmsTrace) - 1
        /\ \A k \in i..(i + d_config.confirmation_windows - 1) : k \in LoudWindows}
RunEnds ==
    {i \in 0..(Len(RmsTrace) - 1) :
        /\ i - d_config.confirmation_windows + 1 >= 0
        /\ \A k \in (i - d_config.confirmation_windows + 1)..i : k \in LoudWindows}
StartWindow ==
    FindStartBoundary(RmsTrace, ThresholdLinear, d_config.confirmation_windows)
EndWindow ==
    FindEndBoundary(RmsTrace, ThresholdLinear, d_config.confirmation_windows,
                    StartWindow)

\* C29: find_start_boundary returns the smallest window at which a run of C
\* windows above the threshold starts; if there is no such run, the smallest
\* window above the threshold; and 0 if no window is above it.
StartBoundaryRule ==
    TraceAnalysed =>
        /\ RunStarts # {} =>
              StartWindow \in RunStarts /\ \A i \in RunStarts : StartWindow <= i
        /\ (RunStarts = {} /\ LoudWindows # {}) =>
              StartWindow \in LoudWindows /\ \A i \in LoudWindows : StartWindow <= i
        /\ LoudWindows = {} => StartWindow = 0

\* A trace of at least three windows with no run of C windows above the
\* threshold, whose first window above it is not window 0.
StartBoundaryRuleWitness ==
    /\ TraceAnalysed /\ d_pc = "done"
    /\ Len(RmsTrace) >= 3
    /\ d_config.confirmation_windows >= 2
    /\ RunStarts = {} /\ LoudWindows # {} /\ 0 \notin LoudWindows

\* C30: find_end_boundary returns the largest window at which a run of C
\* windows above the threshold ends; if there is none, the largest window
\* above the threshold; else the last window.  Scanning from start_window
\* instead of from window 0 gives the same window, and the end window is
\* never below the start window.
EndBoundaryRule ==
    TraceAnalysed =>
        /\ RunEnds # {} =>
              EndWindow \in RunEnds /\ \A i \in RunEnds : EndWindow >= i
        /\ (RunEnds = {} /\ LoudWindows # {}) =>
              EndWindow \in LoudWindows /\ \A i \in LoudWindows : EndWindow >= i
        /\ LoudWindows = {} => EndWindow = Len(RmsTrace) - 1
        /\ EndWindow = FindEndBoundary(RmsTrace, ThresholdLinear,
                                       d_config.confirmation_windows, 0)
        /\ EndWindow >= StartWindow

\* A trace of at least four windows with a run of C >= 2 windows above the
\* threshold that starts after window 0 and ends before the last window,
\* followed by a single window above the threshold.
EndBoundaryRuleWitness ==
    /\ TraceAnalysed /\ d_pc = "done"
    /\ Len(RmsTrace) >= 4
    /\ d_config.confirmation_windows >= 2
    /\ RunEnds # {} /\ StartWindow > 0
    /\ EndWindow < Len(RmsTrace) - 1
    /\ \E i \in LoudWindows : i > EndWindow

\* Detection run again, with the same config, on the audio_data that
\* apply_detection left, and the region a second trim would keep of it.
SecondDetection ==
    DetectBoundaries(d_sample.audio_data, d_sample.sample_rate, d_config,
                     overflow_checks)
SecondTrimmed ==
    /\ SecondDetection.kind = "Ok" /\ SecondDetection.success
    /\ Min(SecondDetection.start_sample, Len(d_sample.audio_data))
          < Min(SecondDetection.end_sample, Len(d_sample.audio_data))
\* What a second trim cuts off at the start and at the end.
SecondCutAtStart ==
    IF SecondTrimmed
    THEN Min(SecondDetection.start_sample, Len(d_sample.audio_data))
    ELSE 0
SecondCutAtEnd ==
    IF SecondTrimmed
    THEN Len(d_sample.audio_data)
            - Min(SecondDetection.end_sample, Len(d_sample.audio_data))
    ELSE 0

\* C22 as stated: after a successful detection and trim, detection of the
\* trimmed buffer with the same config completes, and trimming again keeps
\* the same region within one window length: it cuts off at most one window
\* at the start and at most one at the end.
DetectionIdempotent ==
    ( /\ op = "detect" /\ d_pc = "done"
      /\ d_result.kind = "Ok" /\ d_result.success
      /\ d_sample.audio_data # d_original ) =>
        /\ SecondDetection.kind = "Ok"
        /\ SecondCutAtStart <= WindowSizeSamples
        /\ SecondCutAtEnd <= WindowSizeSamples

(***************************************************************************)
(* The per-note protocol of the two entry points.                          *)
(***************************************************************************)
\* What the driver did strictly between its first step of kind first and its
\* first step of kind last.
Inner(l, first, last) ==
    SubSeq(l, PosOf(l, first, 1) + 1, PosOf(l, last, 1) - 1)

\* The protocol of one note: pre-delay, channel panic, settle, Note-On, gate,
\* Note-Off, release, post-delay.
NoteProtocol(note) ==
    (IF config.pre_delay_ms > 0 THEN <<Sleep(config.pre_delay_ms)>> ELSE <<>>)
    \o [k \in 1..Len(ChannelPanicMessages(config.midi_channel)) |->
           CCEv(config.midi_channel, k, TRUE)]
    \o << Sleep(PanicSettleMs),
          NoteOnEv(config.midi_channel, note, config.velocity, TRUE),
          Sleep(config.note_duration_ms),
          NoteOffEv(config.midi_channel, note, config.velocity, TRUE) >>
    \o (IF config.release_time_ms > 0 THEN <<Sleep(config.release_time_ms)>> ELSE <<>>)
    \o (IF config.post_delay_ms > 0 THEN <<Sleep(config.post_delay_ms)>> ELSE <<>>)

\* Whether the callbacks of the session append what they are given: the
\* range session's between "arm" and "disarm", the single-note session's
\* from "play" until "complete" (or the stream's release).
Capturing ==
    IF op = "range" THEN recording_active
    ELSE stream = "playing" /\ ~recording_complete
CaptureOpen(first, last) ==
    /\ Count(log, first) > Count(log, last)
    /\ op = "single" => Count(log, "drop") = 0

\* C25: sample_single_note and the per-note part of a range session of one
\* note run the same protocol: between the start and the end of the capture
\* both drivers do exactly the steps of NoteProtocol, the same MIDI messages
\* with the same sleeps between them, and audio is captured from the step
\* before the first of them to the step after the last.
SameProtocolBothEntryPoints ==
    /\ (op = "single" /\ pc = "done" /\ result = "Ok") =>
          Inner(log, "play", "complete") = NoteProtocol(start_note)
    /\ (op = "range" /\ start_note = end_note /\ pc = "done" /\ result = "Ok") =>
          Inner(log, "arm", "disarm") = NoteProtocol(start_note)
    /\ op = "single" => (Capturing <=> CaptureOpen("play", "complete"))
    /\ (op = "range" /\ start_note = end_note) =>
          (Capturing <=> CaptureOpen("arm", "disarm"))

\* sample_single_note for note 60, with a config that has a pre-delay and a
\* release time, has returned its Sample, with audio captured.
SameProtocolBothEntryPointsWitness ==
    /\ op = "single" /\ start_note = 60
    /\ pc = "done" /\ result = "Ok"
    /\ config.pre_delay_ms > 0 /\ config.release_time_ms > 0
    /\ Len(samples) = 1 /\ samples[1].audio_data # <<>>

(***************************************************************************)
(* Properties of loop detection.                                           *)
(***************************************************************************)
\* Whether index i (from 0) of the analysed signal is a zero crossing: i >= 1
\* and the signs of x[i-1] and x[i] differ, 0 counting as not positive.
AtZeroCrossing(i) ==
    /\ i >= 1 /\ i <= Len(l_audio) - 1
    /\ (l_audio[i] > 0) # (l_audio[i + 1] > 0)

\* The candidates detect_loop_points returned.
ReturnedCandidates ==
    {l_result.all_candidates[k] : k \in 1..Len(l_result.all_candidates)}

\* C23: every loop candidate returned by detect_loop_points has
\* start_sample < end_sample and length_samples = end_sample - start_sample,
\* and both its endpoints are zero crossings of the analysed signal.
LoopCandidatesAtZeroCrossings ==
    (op = "loop" /\ l_pc = "done") =>
        \A c \in ReturnedCandidates :
            /\ c.start_sample < c.end_sample
            /\ c.length_samples = c.end_sample - c.start_sample
            /\ AtZeroCrossing(c.start_sample)
            /\ AtZeroCrossing(c.end_sample)

\* Loop detection returned several candidates for a signal that has zeros
\* next to its sign changes, one of them at a crossing from 0 to a positive
\* value.
LoopCandidatesAtZeroCrossingsWitness ==
    /\ op = "loop" /\ l_pc = "done"
    /\ Cardinality(ReturnedCandidates) >= 3
    /\ \E c \in ReturnedCandidates :
          /\ l_audio[c.start_sample] = 0 /\ l_audio[c.start_sample + 1] > 0
          /\ l_audio[c.end_sample] > 0 /\ l_audio[c.end_sample + 1] = 0

\* The windows evaluate_candidates passed to normalized_cross_correlation.
CorrelatedWindows ==
    UNION { {RegionWindow(l_audio, c.start_sample),
             RegionWindow(l_audio, c.end_sample)} :
            c \in {d \in ReturnedCandidates :
                      /\ RegionWindow(l_audio, d.start_sample) # <<>>
                      /\ RegionWindow(l_audio, d.end_sample) # <<>>} }
SelfCorrelation(window) == NormalizedCrossCorrelation(window, window, l_unit)

DeviationAboveZero(window) ==
    /\ l_unit = "full"
    /\ \E i, j \in 1..Len(window) : window[i] # window[j]

FailedSamples == IF e_failed_at = "write" THEN {e_index} ELSE {}
WrittenSamples == {f.sample : f \in {g \in e_disk : g.finalized}} \ FailedSamples

\* C16 as stated: when export_samples has ended, with every write having
\* succeeded or with a write, finalize or verification failure, the failure
\* is reported for its Sample only and every other Sample has its audio
\* file: the files written are the Samples minus the failed ones.
BatchContinuesAfterFailure ==
    ( /\ op = "export" /\ e_pc = "done"
      /\ e_failed_at \in {"none", "write"} ) =>
        /\ WrittenSamples = (1..Len(e_samples)) \ FailedSamples
        /\ Cardinality(WrittenSamples) = Len(e_samples) - Cardinality(FailedSamples)

\* Detection of the Sample at e_index did not succeed: success = false
\* because the padded length is below the minimum, or an error.
DetectionFailed ==
    \/ e_detection.kind = "Err"
    \/ /\ e_detection.kind = "Ok" /\ ~e_detection.success
       /\ e_detection.failure_reason = "Sample too short after detection"

\* The Sample at e_index with fades and normalization applied, untrimmed.
FullOriginalProcessed ==
    ProcessAudio(e_samples[e_index].audio_data, e_samples[e_index].sample_rate,
                 e_config)

\* C20: when detection yields success = false (too short) or an error,
\* nothing is trimmed: sample_copy.audio_data stays the original buffer, the
\* export of the Sample does not fail for it, and the exporter processes the
\* full original buffer and hands all of it to the writer, which writes it.
DetectionFailureFallsBack ==
    /\ []( (op = "export" /\ DetectionFailed) =>
            /\ e_failed_at # "detect"
            /\ e_pc \in {"process", "write"} =>
                  e_copy = e_samples[e_index].audio_data
            /\ e_pc = "write" =>
                  /\ e_data = FullOriginalProcessed
                  /\ Len(e_data) = Len(e_samples[e_index].audio_data) )
    /\ [][ ( /\ op = "export" /\ e_pc = "write" /\ DetectionFailed
             /\ e_failed_at' # "write" ) =>
               e_disk' = e_disk \cup
                   {[sample |-> e_index,
                     written |-> Len(e_samples[e_index].audio_data),
                     finalized |-> TRUE]} ]_vars

\* The second Sample of a batch, six values long, is at the writer after
\* detection returned the window-too-small error, with fades to apply.
DetectionFailureFallsBackWitness ==
    /\ op = "export" /\ e_pc = "write" /\ e_index = 2
    /\ e_detection.kind = "Err"
    /\ e_config.fade_in_ms > 0
    /\ Len(e_data) = 6
    /\ e_data # e_samples[e_index].audio_data

\* C24 as stated: the velocity ranges of the .dspreset file's layers, in
\* ascending velocity order, partition 1..127: the lowest layer starts at 1,
\* the highest ends at 127, and each layer starts one above the end of the
\* layer before it.
VelocityLayersPartition ==
    (op = "export" /\ e_pc = "done" /\ e_result = "Ok" /\ e_groups # <<>>) =>
        /\ e_groups[1].lo_vel = 1
        /\ e_groups[Len(e_groups)].hi_vel = 127
        /\ \A g \in 1..(Len(e_groups) - 1) :
              /\ e_groups[g].velocity < e_groups[g + 1].velocity
              /\ e_groups[g + 1].lo_vel = e_groups[g].hi_vel + 1

(***************************************************************************)
(* Properties of the panic sweep.                                          *)
(***************************************************************************)
\* The i-th message of the sweep as the code writes it: 16 x (CC 123, CC 120),
\* then for each channel its 128 note-offs and its CC 121, then 16 x CC 123.
SweepMessage(i) ==
    IF i <= 32
    THEN <<176 + ((i - 1) \div 2), IF i % 2 = 1 THEN 123 ELSE 120, 0>>
    ELSE IF i <= 2096
    THEN LET ch == (i - 33) \div 129
             k == (i - 33) % 129
         IN IF k < 128 THEN <<128 + ch, k, 0>> ELSE <<176 + ch, 121, 0>>
    ELSE <<176 + (i - 2097), 123, 0>>

\* The i-th message of the sweep with all note-offs before all CC 121: 16 x
\* (CC 123, CC 120), 16 x 128 note-offs, 16 x CC 121, 16 x CC 123.
SweepMessageNoteOffsFirst(i) ==
    IF i <= 32
    THEN <<176 + ((i - 1) \div 2), IF i % 2 = 1 THEN 123 ELSE 120, 0>>
    ELSE IF i <= 2080
    THEN <<128 + ((i - 33) \div 128), (i - 33) % 128, 0>>
    ELSE IF i <= 2096
    THEN <<176 + (i - 2081), 121, 0>>
    ELSE <<176 + (i - 2097), 123, 0>>

\* C4 as stated: the sweep is 2,112 messages, CC 123 and CC 120 per channel,
\* then all 16 x 128 note-offs, then CC 121 per channel, then CC 123 per
\* channel, so that every note-off precedes every CC 121.
PanicOrderNoteOffsFirst ==
    p_pc = "done" =>
        /\ Len(p_log) = 2112
        /\ \A i \in 1..2112 : p_log[i] = SweepMessageNoteOffsFirst(i)

\* C4, amended: the sweep is 2,112 messages: CC 123 and CC 120 for each of
\* the 16 channels, then for each channel in turn its 128 note-offs followed
\* by its CC 121, then CC 123 for each channel.
PanicOrder ==
    /\ \A i \in 1..Len(p_log) : p_log[i] = SweepMessage(i)
    /\ p_pc = "done" => Len(p_log) = 2112

\* A finished sweep: channel 0's CC 121 is followed by channel 1's note-offs.
PanicOrderWitness ==
    /\ p_pc = "done" /\ p_result = "Ok"
    /\ Len(p_log) = 2112
    /\ p_log[161] = <<176, 121, 0>> /\ IsNoteOff(p_log[162])

\* C5: the sweep is best effort: whichever writes fail, every later message
\* is still attempted and send_midi_panic returns Ok.
PanicBestEffort ==
    /\ p_result # "Err"
    /\ Len(p_ok) = Len(p_log)
    /\ p_pc = "done" => (p_result = "Ok" /\ Len(p_log) = 2112)
    /\ \A k \in 1..Len(p_ok) :
          (~p_ok[k] /\ k < 2112) => (p_pc # "done" \/ Len(p_log) > k)

\* A sweep whose first write failed, and whose last write was attempted.
PanicBestEffortWitness ==
    /\ p_pc = "done" /\ p_result = "Ok"
    /\ Len(p_ok) = 2112
    /\ ~p_ok[1] /\ p_ok[2112]
    /\ notes_sent < 2048


(***************************************************************************)
(* Level metering in the capture callbacks.                                *)
(***************************************************************************)
\* A callback returns.
CallbackEnds == cb_pc # "idle" /\ cb_pc' = "idle"

\* A callback appends to the recording buffer.
CallbackAppends == Len(audio_samples') > Len(audio_samples)

\* C28: on every callback of a capture stream, whatever the sample format,
\* the delivered frames go through the level detector and the levels slot is
\* updated before anything is appended: a callback that returns has left
\* the levels of its buffer in the slot, and a buffer is appended only with
\* its levels in the slot.
LevelsUpdatedOnEveryCallback ==
    [][/\ CallbackEnds => levels' = UpdateLevels(cb_count)
       /\ CallbackAppends => levels' = UpdateLevels(cb_count)]_vars


(***************************************************************************)
(* What a note's snapshot holds.                                           *)
(***************************************************************************)
\* The callbacks whose buffers a recording is made of, in its order.
BufferIds(recording) ==
    [j \in 1..(Len(recording) \div FramesPerBuffer) |->
        recording[(j - 1) * FramesPerBuffer + 1][1]]

\* A recording is made of whole buffers of callbacks that have begun, each
\* once and in the order of their delivery.
WholeBuffersInOrder(recording) ==
    LET ids == BufferIds(recording)
    IN /\ Len(recording) = Len(ids) * FramesPerBuffer
       /\ \A j \in 1..Len(ids) :
              /\ ids[j] \in 1..cb_count
              /\ SubSeq(recording, (j - 1) * FramesPerBuffer + 1,
                        j * FramesPerBuffer) = CallbackData(ids[j])
              /\ j > 1 => ids[j - 1] < ids[j]

\* Every buffer of the first recording was delivered before every buffer of
\* the second.
AllBefore(first, second) ==
    \A a \in 1..Len(first), b \in 1..Len(second) : first[a][1] < second[b][1]

\* The driver has armed the flag for a note and not yet taken its snapshot.
ArmedPcs == HeadPcs \cup TailPcs \cup {"snap_lock", "snap"}

\* The snapshots and the recording buffer hold whole buffers in capture
\* order, and no buffer is in two notes' snapshots.
SnapshotsOfWholeBuffers ==
    op = "range" =>
        /\ WholeBuffersInOrder(audio_samples)
        /\ \A n \in 1..Len(samples) :
              /\ WholeBuffersInOrder(samples[n].audio_data)
              /\ \A later \in (n + 1)..Len(samples) :
                    AllBefore(samples[n].audio_data, samples[later].audio_data)
              /\ pc \in ArmedPcs => AllBefore(samples[n].audio_data, audio_samples)

\* What the callback reads in recording_active decides: on true it goes on
\* to append, on false it returns and the buffer is as it was.
ObservedFlagDecides ==
    (op = "range" /\ cb_pc = "p_check" /\ cb_pc' # "p_check") =>
        /\ audio_samples' = audio_samples
        /\ cb_pc' = IF recording_active THEN "p_lock_samples" ELSE "idle"

\* The recording buffer changes only when a callback that read true appends
\* its whole buffer, or when the driver empties it before arming the flag.
OnlyArmedBuffersAppended ==
    (op = "range" /\ audio_samples' # audio_samples) =>
        \/ /\ cb_pc = "p_extend"
           /\ audio_samples' = audio_samples \o CallbackData(cb_count)
        \/ /\ pc \in {"build", "clear"}
           /\ audio_samples' = <<>>

\* From the arming of the flag to the snapshot the recording buffer starts
\* empty and loses nothing, and the snapshot is the recording buffer.
ArmedBuffersKept ==
    /\ (op = "range" /\ pc = "arm" /\ pc' # pc) => audio_samples = <<>>
    /\ (op = "range" /\ pc \in ArmedPcs) => IsPrefix(audio_samples, audio_samples')
    /\ (op = "range" /\ pc = "snap" /\ pc' # pc) =>
          /\ Len(samples') = Len(samples) + 1
          /\ samples'[Len(samples')].audio_data = audio_samples

\* C27: under every interleaving of the callback with the driver of a range
\* session, a note's snapshot is exactly the buffers whose callback read
\* recording_active = true during that note, whole and in capture order: a
\* callback that reads true appends its whole buffer before the flag can
\* change or the snapshot be taken, a callback that reads false appends
\* nothing, and nothing else puts a buffer in or takes one out between the
\* arming and the snapshot.
SnapshotIsTheArmedBuffers ==
    /\ [](SnapshotsOfWholeBuffers /\ ReadTrueHoldsFlag)
    /\ [][ObservedFlagDecides /\ OnlyArmedBuffersAppended /\ ArmedBuffersKept]_vars

\* Two notes have been snapshotted: the first buffer delivered was read with
\* the flag false and is in neither, a later one is in the second.
SnapshotIsTheArmedBuffersWitness ==
    /\ op = "range" /\ Len(samples) = 2
    /\ samples[2].audio_data # <<>>
    /\ \A n \in 1..2 : \A a \in 1..Len(samples[n].audio_data) :
          samples[n].audio_data[a][1] > 1

(***************************************************************************)
(* The conversion of the delivered frames in the callbacks of              *)
(* build_persistent_recording_stream.  A float is the exact quotient       *)
(* num / den: the raw frame and the divisor are exact as f32, the division *)
(* rounds to the nearest f32, and since -1 and 1 are f32 values the        *)
(* rounding moves no quotient from one side of them to the other.          *)
(***************************************************************************)
\* sample as f32 / i16::MAX as f32
I16ToF32(sample) == [num |-> sample, den |-> I16Max]

\* (sample as f32 - 32768.0) / 32768.0
U16ToF32(sample) == [num |-> sample - U16Midpoint, den |-> U16Midpoint]

\* What each format's closure makes of a delivered frame: the f32 closure
\* takes it as it is.
ToF32(format, sample) ==
    CASE format = "I16" -> I16ToF32(sample)
      [] format = "U16" -> U16ToF32(sample)
      [] OTHER -> sample

\* data.iter().map(..).collect()
ConvertFrames ==
    /\ op = "convert" /\ c_pc = "convert"
    /\ f32_samples' = [i \in 1..Len(c_data) |-> ToF32(c_format, c_data[i])]
    /\ c_pc' = "extend"
    /\ UNCHANGED <<c_format, c_data, c_buffer, exceptConvert>>

\* if *recording_flag { audio_samples.extend(f32_samples) }
ConvertExtend ==
    /\ op = "convert" /\ c_pc = "extend"
    /\ \E recording_flag \in BOOLEAN :
          c_buffer' = IF recording_flag THEN c_buffer \o f32_samples ELSE c_buffer
    /\ c_pc' = "done"
    /\ UNCHANGED <<c_format, c_data, f32_samples, exceptConvert>>

\* The raw values near the ends and the middle of lo..hi.
NearEdges(lo, hi) ==
    LET mid == (lo + hi + 1) \div 2
    IN (lo..(lo + MaxEdgeDistance)) \cup ((hi - MaxEdgeDistance)..hi)
       \cup ((mid - MaxEdgeDistance)..(mid + MaxEdgeDistance))

\* The frames a device of a format delivers: every i16, every u16, floats
\* in [-1, +1].
RawFrames(format) ==
    CASE format = "I16" -> NearEdges(-I16Max - 1, I16Max)
      [] format = "U16" -> NearEdges(0, 2 * U16Midpoint - 1)
      [] OTHER -> {[num |-> n, den |-> 1] : n \in {-1, 0, 1}}

\* A callback of the persistent stream with one frame.
InitConvert ==
    /\ op = "convert"
    /\ overflow_checks = FALSE
    /\ SessionIdle
    /\ PanicIdle
    /\ DetectIdle
    /\ ExportIdle
    /\ LoopIdle
    /\ EncodeIdle
    /\ CrossfadeIdle
    /\ SlotIdle
    /\ MonitorIdle
    /\ InstrumentIdle
    /\ c_pc = "convert"
    /\ c_format \in SampleFormats
    /\ \E raw \in RawFrames(c_format) : c_data = <<raw>>
    /\ f32_samples = <<>> /\ c_buffer = <<>>

NextConvert == ConvertFrames \/ ConvertExtend

SpecConvert == InitConvert /\ [][NextConvert]_vars

\* A float lies in [-1, +1].
InUnitRange(value) == -value.den <= value.num /\ value.num <= value.den

\* C32: for every 16-bit signed and every 16-bit unsigned input sample, the
\* value the callback converts it to and appends to the recording buffer
\* lies in [-1, +1].
ConvertedInUnitRange ==
    (op = "convert" /\ c_format \in {"I16", "U16"}) =>
        \A i \in 1..Len(c_buffer) : InUnitRange(c_buffer[i])

(***************************************************************************)
(* write_wav_file with AudioFormat::Wav24Bit: the loop that casts and      *)
(* writes the frames.  A frame is the quotient num / den with den a power  *)
(* of two, so that its product with 8388607 is exact in f32.               *)
(***************************************************************************)
\* The quotient of a by b, rounded towards zero.
TruncDiv(a, b) == IF a >= 0 THEN a \div b ELSE -((-a) \div b)

\* (sample * 8_388_607.0) as i32: the cast drops the fraction; it saturates
\* at the ends of i32, which no frame tried here reaches.
CastToI32(sample) == TruncDiv(sample.num * Int24Max, sample.den)

\* Whether an i32 fits the 24 bits of the file's samples.
FitsInt24(value) == -Int24Max - 1 <= value /\ value <= Int24Max

\* The low 24 bits of an i32, as a signed 24-bit integer.
LowInt24(value) ==
    LET modulus == 2 * (Int24Max + 1)
        low == value % modulus
    IN IF low > Int24Max THEN low - modulus ELSE low

\* The loop ends, by an error or after the last frame.
EncodeStop(outcome, reason) ==
    /\ w_result' = outcome /\ w_reason' = reason
    /\ w_pc' = "done"
    /\ UNCHANGED <<w_index, w_written>>

EncodeAccept(value) ==
    /\ w_written' = Append(w_written, value)
    /\ w_index' = w_index + 1
    /\ w_pc' = IF w_index = Len(w_audio) THEN "finalize" ELSE "write"
    /\ UNCHANGED <<w_result, w_reason>>

\* One turn of the loop: the cast and writer.write_sample(sample_i32).  The
\* writer is a library outside the repository: it may fail on the file, and
\* an i32 that does not fit 24 bits it either refuses or cuts to 24 bits.
EncodeWriteSample ==
    /\ op = "encode" /\ w_pc = "write"
    /\ LET sample_i32 == CastToI32(w_audio[w_index])
       IN \/ EncodeStop("Err", "io")
          \/ /\ FitsInt24(sample_i32)
             /\ EncodeAccept(sample_i32)
          \/ /\ ~FitsInt24(sample_i32)
             /\ \/ EncodeStop("Err", "range")
                \/ EncodeAccept(LowInt24(sample_i32))
    /\ UNCHANGED <<w_audio, exceptEncode>>

\* writer.finalize() and the look at the file's metadata
EncodeFinalize ==
    /\ op = "encode" /\ w_pc = "finalize"
    /\ \E ok \in BOOLEAN :
          IF ok THEN EncodeStop("Ok", "") ELSE EncodeStop("Err", "io")
    /\ UNCHANGED <<w_audio, exceptEncode>>

\* The frames tried: 0 and the powers of two from 1/8 to 2^MaxShift / 8,
\* with either sign.
RECURSIVE Pow2(_)
Pow2(k) == IF k = 0 THEN 1 ELSE 2 * Pow2(k - 1)
EncodeFrames ==
    {[num |-> s * Pow2(k), den |-> 8] : s \in {-1, 0, 1}, k \in 0..MaxShift}

\* write_wav_file on one or two frames.
InitEncode ==
    /\ op = "encode"
    /\ overflow_checks = FALSE
    /\ SessionIdle
    /\ PanicIdle
    /\ DetectIdle
    /\ ExportIdle
    /\ LoopIdle
    /\ ConvertIdle
    /\ CrossfadeIdle
    /\ SlotIdle
    /\ MonitorIdle
    /\ InstrumentIdle
    /\ w_pc = "write"
    /\ w_audio \in {<<a>> : a \in EncodeFrames}
                    \cup {<<a, b>> : a \in EncodeFrames, b \in EncodeFrames}
    /\ w_index = 1
    /\ w_written = <<>>
    /\ w_result = "running" /\ w_reason = ""

NextEncode == EncodeWriteSample \/ EncodeFinalize

SpecEncode == InitEncode /\ [][NextEncode]_vars

\* round(x * 8388607), halves away from zero, saturated to the signed
\* 24-bit range.
RoundedSaturated(sample) ==
    LET product == sample.num * Int24Max
        rounded == TruncDiv(2 * product + (IF product >= 0 THEN 1 ELSE -1) * sample.den,
                            2 * sample.den)
    IN Max(-Int24Max - 1, Min(rounded, Int24Max))

\* C33: in 24-bit export every frame value x, also outside [-1, +1], is
\* written as round(x * 8388607) saturated to -8388608..8388607, and the
\* encoding never fails or wraps because of an out-of-range sample.
Encoded24BitSaturated ==
    op = "encode" =>
        /\ \A k \in 1..Len(w_written) : w_written[k] = RoundedSaturated(w_audio[k])
        /\ w_reason # "range"

(***************************************************************************)
(* apply_loop_with_crossfade(audio_data, loop_candidate, sample_rate).     *)
(* Indices count from 0 as in the source; a sequence's index is one more.  *)
(***************************************************************************)
\* (crossfade_ms * sample_rate as f32 / 1000.0) as usize
CrossfadeSamples(crossfade_ms, sample_rate) == (crossfade_ms * sample_rate) \div 1000

\* crossfade_samples == 0 || crossfade_samples >= length_samples / 2
CrossfadeSkipped_Never(crossfade_samples, length_samples) == FALSE

CrossfadeSkipped(crossfade_samples, length_samples) ==
    crossfade_samples = 0 \/ crossfade_samples >= length_samples \div 2

\* The turns i, i + 1, .. of the loop over 0..crossfade_samples: the blend
\* of audio_data[start + i] with audio_data[end - crossfade_samples + i],
\* written to audio_data[start + i].  A source index below 0 wraps to a
\* usize that is not below the length.
RECURSIVE CrossfadeFrom(_, _, _, _, _)
CrossfadeFrom(audio_data, start, end, crossfade_samples, i) ==
    IF i >= crossfade_samples THEN audio_data
    ELSE LET target == start + i
             source == end - crossfade_samples + i
             blended ==
                 IF target < Len(audio_data) /\ source >= 0 /\ source < Len(audio_data)
                 THEN [audio_data EXCEPT ![target + 1] =
                          (audio_data[target + 1] * (crossfade_samples - i)
                           + audio_data[source + 1] * i) \div crossfade_samples]
                 ELSE audio_data
         IN CrossfadeFrom(blended, start, end, crossfade_samples, i + 1)

\* apply_loop_with_crossfade
ApplyLoopWithCrossfade ==
    /\ op = "crossfade" /\ x_pc = "apply"
    /\ LET crossfade_samples == CrossfadeSamples(x_crossfade_ms, x_sample_rate)
       IN x_audio' =
              IF CrossfadeSkipped(crossfade_samples, x_candidate.length_samples)
              THEN x_audio
              ELSE CrossfadeFrom(x_audio, x_candidate.start_sample,
                                 x_candidate.end_sample, crossfade_samples, 0)
    /\ x_pc' = "done"
    /\ UNCHANGED <<x_original, x_candidate, x_crossfade_ms, x_sample_rate,
                   exceptCrossfade>>

\* The buffers a loop is applied to: a ramp, and alternating signs.
CrossfadeBuffers ==
    { [i \in 1..MaxCrossfadeLen |-> 100 * i],
      [i \in 1..MaxCrossfadeLen |-> IF i % 2 = 0 THEN 900 - 10 * i ELSE 10 * i - 900] }

\* The candidates loop detection can return for a buffer: start < end inside
\* the buffer, the length their difference.
CrossfadeCandidates(audio_data) ==
    {[start_sample |-> pair[1], end_sample |-> pair[2],
      length_samples |-> pair[2] - pair[1]] :
        pair \in {q \in (0..Len(audio_data)) \X (0..Len(audio_data)) : q[1] < q[2]}}

InitCrossfade ==
    /\ op = "crossfade"
    /\ overflow_checks = FALSE
    /\ SessionIdle
    /\ PanicIdle
    /\ DetectIdle
    /\ ExportIdle
    /\ LoopIdle
    /\ ConvertIdle
    /\ EncodeIdle
    /\ SlotIdle
    /\ MonitorIdle
    /\ InstrumentIdle
    /\ x_pc = "apply"
    /\ x_audio \in CrossfadeBuffers
    /\ x_original = x_audio
    /\ x_candidate \in CrossfadeCandidates(x_audio)
    /\ x_crossfade_ms \in 0..MaxCrossfadeMs
    /\ x_sample_rate \in {1000, 500}

SpecCrossfade == InitCrossfade /\ [][ApplyLoopWithCrossfade]_vars

\* The crossfade length of the call, in samples.
Cf == CrossfadeSamples(x_crossfade_ms, x_sample_rate)

\* C34: apply_loop_with_crossfade leaves the audio completely unchanged when
\* cf = 0 or cf >= L/2; otherwise it changes nothing but the samples at
\* indices start..start+cf-1, the source region end-cf..end-1 included in
\* what it leaves as it was.
CrossfadeFrame ==
    (op = "crossfade" /\ x_pc = "done") =>
        /\ Len(x_audio) = Len(x_original)
        /\ IF Cf = 0 \/ 2 * Cf >= x_candidate.length_samples
           THEN x_audio = x_original
           ELSE \A position \in 0..(Len(x_audio) - 1) :
                    \/ position \in x_candidate.start_sample..
                                      (x_candidate.start_sample + Cf - 1)
                    \/ x_audio[position + 1] = x_original[position + 1]
        /\ (Cf > 0 /\ 2 * Cf < x_candidate.length_samples) =>
              \A position \in (x_candidate.end_sample - Cf)..
                               (x_candidate.end_sample - 1) :
                  x_audio[position + 1] = x_original[position + 1]

\* A crossfade of two samples or more has been applied and has changed the
\* audio, and its source region lies inside the buffer.
CrossfadeFrameWitness ==
    /\ op = "crossfade" /\ x_pc = "done"
    /\ Cf >= 2 /\ 2 * Cf < x_candidate.length_samples
    /\ x_audio # x_original
    /\ x_candidate.end_sample - Cf >= x_candidate.start_sample + Cf

(***************************************************************************)
(* Properties of generate_loop_candidates.                                 *)
(***************************************************************************)
\* C31: generate_loop_candidates returns at most max_candidates candidates,
\* for every max_candidates >= 0, each a pair (a, b) of zero crossings with
\* min_len <= b - a <= max_len and b < len(frames).
CandidatesCapped ==
    (op = "loop" /\ l_pc \in {"evaluate", "done"}) =>
        /\ Len(l_candidates) <= l_config.max_candidates
        /\ \A k \in 1..Len(l_candidates) :
              LET a == l_candidates[k].start_sample
                  b == l_candidates[k].end_sample
              IN /\ AtZeroCrossing(a) /\ AtZeroCrossing(b)
                 /\ b - a >= LoopLengthSamples(l_config.min_loop_length_ms,
                                               l_sample_rate)
                 /\ b - a <= LoopLengthSamples(l_config.max_loop_length_ms,
                                               l_sample_rate)
                 /\ b < Len(l_audio)

(***************************************************************************)
(* The correlation threshold and the result of loop detection.             *)
(***************************************************************************)
\* detect_loop_points(audio_data, sample_rate) of a detector with config
\* cfg, as one function: what the three steps return.
DetectLoopPoints(audio_data, sample_rate, cfg, unit) ==
    LET crossings == FindZeroCrossings(audio_data)
        candidates == GenerateLoopCandidates(crossings, audio_data, sample_rate, cfg)
        evaluated_candidates ==
            SortByQuality(EvaluateCandidates(candidates, audio_data, unit))
        success == evaluated_candidates[1].quality_score > SuccessThreshold(cfg)
    IN IF Len(crossings) < MinZeroCrossings
       THEN LoopFailure("Insufficient zero crossings found")
       ELSE IF candidates = <<>>
       THEN LoopFailure("No valid loop candidates found")
       ELSE [success |-> success,
             all_candidates |-> evaluated_candidates,
             failure_reason |->
                 IF success THEN "" ELSE "No high-quality loop candidates found"]

DriverRuns == RangeDriver \/ SingleDriver

CallbackRuns ==
    \/ PersistentCbLockFlag \/ PersistentCbCheck \/ PersistentCbLockSamples
    \/ PersistentCbExtend
    \/ RecordingCbLockSamples \/ RecordingCbLockComplete \/ RecordingCbExtend

\* Sessions of one note to MaxNotes notes, and single notes, with the
\* default config.
InitLocks ==
    /\ Init
    /\ ~overflow_checks
    /\ config.velocity = 100
    /\ start_note = 60 /\ end_note \in start_note..(start_note + MaxNotes - 1)

SpecLocks ==
    InitLocks /\ [][Next]_vars /\ WF_vars(DriverRuns) /\ WF_vars(CallbackRuns)

\* The positions at which the driver and the callback ask for a mutex.
DriverLockPcs ==
    {"clear_lock", "arm_lock", "disarm_lock", "snap_lock",
     "s_complete_lock", "s_snap_lock"}
CallbackLockPcs ==
    {"p_lock_flag", "p_lock_samples", "r_lock_samples", "r_lock_complete"}

\* C35: the driver and the audio callback never deadlock on the shared
\* mutexes: in the persistent stream and in the single-note stream, under
\* every interleaving, every lock request of the driver and of the callback
\* is eventually granted.
LockRequestsGranted ==
    /\ \A at \in DriverLockPcs : (pc = at) ~> (pc # at)
    /\ \A at \in CallbackLockPcs : (cb_pc = at) ~> (cb_pc # at)

\* The driver asks for the flag's mutex to disarm it while a callback that
\* read the flag holds it and the buffer's.
LockRequestsGrantedWitness ==
    /\ op = "range" /\ pc = "disarm_lock"
    /\ flag_lock = "callback" /\ samples_lock = "callback"
    /\ cb_pc = "p_extend"

(***************************************************************************)
(* The GUI's commands that use the MIDI connection (lib.rs).  The          *)
(* connection lives in the global MIDI_CONNECTION: Mutex<Option<..>>; a    *)
(* command takes it out, uses it or hands it to a worker thread, and puts  *)
(* it back.  The commands are issued one after the other.                  *)
(***************************************************************************)

\* The commands and their note arguments; record_range passes start_note and
\* end_note to the engine as they are.
GuiCommands ==
    {[name |-> n, start_note |-> 60, end_note |-> 60] :
        n \in {"test_midi_connection", "preview_note", "send_midi_panic",
               "record_sample"}}
    \cup {[name |-> "record_range", start_note |-> s, end_note |-> 60] : s \in {60, 61}}

\* The commands that hand the connection to a worker thread.
WorkerCommands == {"record_sample", "record_range"}

\* The command returns r.
CommandReturn(r) ==
    /\ g_pc' = "idle"
    /\ g_result' = r
    /\ g_done' = g_done + 1

\* The frontend invokes a command.
CommandBegin ==
    /\ g_pc = "idle" /\ g_done < MaxCommands
    /\ \E c \in GuiCommands : g_command' = c
    /\ g_pc' = "take"
    /\ g_result' = "running"
    /\ g_outcome' = "none"
    /\ UNCHANGED <<MIDI_CONNECTION, g_held, g_worker, g_done, exceptSlot>>

\* match connection_guard.take() { Some(conn) => conn, None => return Err(..) }
CommandTake ==
    /\ g_pc = "take"
    /\ IF MIDI_CONNECTION = "Some"
       THEN /\ MIDI_CONNECTION' = "None"
            /\ g_held' = "command"
            /\ g_pc' = IF g_command.name \in WorkerCommands THEN "spawn" ELSE "send"
            /\ UNCHANGED <<g_result, g_done>>
       ELSE /\ CommandReturn("NoConnection")
            /\ UNCHANGED <<MIDI_CONNECTION, g_held>>
    /\ UNCHANGED <<g_command, g_worker, g_outcome, exceptSlot>>

\* let result = MidiManager::send_test_note(..) or send_midi_panic(..)
CommandSend ==
    /\ g_pc = "send"
    /\ g_outcome' \in {"Ok", "Err"}
    /\ g_pc' = "put_back"
    /\ UNCHANGED <<g_command, MIDI_CONNECTION, g_held, g_worker, g_result, g_done,
                   exceptSlot>>

\* *MIDI_CONNECTION.lock().unwrap() = Some(connection); match result { .. }
CommandPutBack ==
    /\ g_pc = "put_back"
    /\ MIDI_CONNECTION' = "Some"
    /\ g_held' = "none"
    /\ CommandReturn(g_outcome)
    /\ UNCHANGED <<g_command, g_worker, g_outcome, exceptSlot>>

\* let (tx, rx) = channel(); std::thread::spawn(move || { .. }): the
\* connection moves into the closure.
CommandSpawn ==
    /\ g_pc = "spawn"
    /\ g_worker' = "engine_new"
    /\ g_held' = "worker"
    /\ g_pc' = "recv"
    /\ UNCHANGED <<g_command, MIDI_CONNECTION, g_outcome, g_result, g_done, exceptSlot>>

\* match SamplingEngine::new(sampling_config): an error is sent back with the
\* connection and the thread returns.
WorkerEngineNew ==
    /\ g_worker = "engine_new"
    /\ \E ok \in BOOLEAN :
        IF ok THEN /\ g_worker' = "sample"
                   /\ UNCHANGED <<g_outcome, g_held>>
              ELSE /\ g_worker' = "sent"
                   /\ g_outcome' = "Err"
                   /\ g_held' = "channel"
    /\ UNCHANGED <<g_pc, g_command, MIDI_CONNECTION, g_result, g_done, exceptSlot>>

\* What the engine's blocking call can come to: sample_note_range_blocking
\* computes end_note - start_note + 1 in u8 after it has created its runtime,
\* and an overflow there panics in a build with overflow checks.
SamplingOutcomes(command, checks) ==
    LET d == command.end_note - command.start_note
        overflow == d < 0 \/ (d % U8Mod) + 1 >= U8Mod
    IN IF command.name = "record_range" /\ overflow /\ checks
       THEN {"Err", "Panicked"}
       ELSE {"Ok", "Err"}

\* let result = sampling_engine.sample_.._blocking(&mut connection, ..).  A
\* panic unwinds the thread: the closure's connection and tx are dropped.
WorkerSample ==
    /\ g_worker = "sample"
    /\ \E outcome \in SamplingOutcomes(g_command, overflow_checks) :
        /\ g_outcome' = outcome
        /\ IF outcome = "Panicked"
           THEN g_worker' = "panicked" /\ g_held' = "none"
           ELSE g_worker' = "send" /\ UNCHANGED g_held
    /\ UNCHANGED <<g_pc, g_command, MIDI_CONNECTION, g_result, g_done, exceptSlot>>

\* let _ = tx.send((result, connection));
WorkerSend ==
    /\ g_worker = "send"
    /\ g_worker' = "sent"
    /\ g_held' = "channel"
    /\ UNCHANGED <<g_pc, g_command, MIDI_CONNECTION, g_outcome, g_result, g_done,
                   exceptSlot>>

\* let (recording_result, returned_connection) = rx.recv().map_err(..)?;
\* *MIDI_CONNECTION.lock().unwrap() = Some(returned_connection);
\* match recording_result { .. }.  recv blocks while the worker runs and
\* fails once the sender is dropped without a message; the `?` then returns
\* before the line that puts the connection back.
CommandRecv ==
    /\ g_pc = "recv"
    /\ g_worker \in {"sent", "panicked"}
    /\ IF g_worker = "sent"
       THEN /\ MIDI_CONNECTION' = "Some"
            /\ CommandReturn(g_outcome)
       ELSE /\ UNCHANGED MIDI_CONNECTION
            /\ CommandReturn("Err")
    /\ g_held' = "none"
    /\ g_worker' = "none"
    /\ UNCHANGED <<g_command, g_outcome, exceptSlot>>

NextSlot ==
    \/ CommandBegin
    \/ CommandTake
    \/ CommandSend
    \/ CommandPutBack
    \/ CommandSpawn
    \/ WorkerEngineNew
    \/ WorkerSample
    \/ WorkerSend
    \/ CommandRecv

\* A device has been connected, and no command is running.
InitSlot ==
    /\ op = "command"
    /\ overflow_checks \in BOOLEAN
    /\ SessionIdle
    /\ PanicIdle
    /\ DetectIdle
    /\ ExportIdle
    /\ LoopIdle
    /\ ConvertIdle
    /\ EncodeIdle
    /\ CrossfadeIdle
    /\ MonitorIdle
    /\ InstrumentIdle
    /\ g_pc = "idle" /\ g_command = "none" /\ MIDI_CONNECTION = "Some"
    /\ g_held = "none" /\ g_worker = "none" /\ g_outcome = "none"
    /\ g_result = "none" /\ g_done = 0

SpecSlot == InitSlot /\ [][NextSlot]_vars

\* C36: after a command that took the MIDI connection out of the global slot
\* has returned, with success or with an error and also when its worker
\* thread ended without sending a result, the slot holds the connection
\* again, so that no later command fails with "No MIDI connection
\* established".
ConnectionRestored ==
    /\ g_pc = "idle" => MIDI_CONNECTION = "Some"
    /\ g_result # "NoConnection"

(***************************************************************************)
(* Input monitoring (lib.rs): start_input_monitoring and                   *)
(* stop_input_monitoring are async commands that can run at the same time. *)
(* They share the atomic MONITORING_ACTIVE and the mutex-guarded           *)
(* MONITORING_THREAD and GLOBAL_SAMPLING_ENGINE; each lock is held for one *)
(* statement.  A handle is the number of the thread it belongs to.         *)
(***************************************************************************)

MonitorCalls == 1..MaxMonitorCalls
\* A start spawns at most one thread.
MonitorThreads == 1..MaxMonitorCalls

\* The threads spawned so far.
SpawnedThreads == {t \in MonitorThreads : t_pc[t] # "none"}

\* The call moves on.
CallGoto(c, next) == m_pc' = [m_pc EXCEPT ![c] = next]
\* The thread moves on.
ThreadGoto(t, next) == t_pc' = [t_pc EXCEPT ![t] = next]

\* The frontend invokes one of the two commands.
MonitorCallBegin(c) ==
    /\ m_pc[c] = "idle"
    /\ \E kind \in {"start", "stop"} :
        /\ m_kind' = [m_kind EXCEPT ![c] = kind]
        /\ CallGoto(c, IF kind = "start" THEN "check" ELSE "clear")
    /\ UNCHANGED <<MONITORING_ACTIVE, MONITORING_THREAD, GLOBAL_SAMPLING_ENGINE,
                   m_handle, t_pc, t_stream, exceptMonitor>>

\* if MONITORING_ACTIVE.load(Relaxed) { return Ok("already active") }
StartCheck(c) ==
    /\ m_pc[c] = "check"
    /\ CallGoto(c, IF MONITORING_ACTIVE THEN "done" ELSE "store")
    /\ UNCHANGED <<MONITORING_ACTIVE, MONITORING_THREAD, GLOBAL_SAMPLING_ENGINE,
                   m_kind, m_handle, t_pc, t_stream, exceptMonitor>>

\* MONITORING_ACTIVE.store(true, Relaxed)
StartStore(c) ==
    /\ m_pc[c] = "store"
    /\ MONITORING_ACTIVE' = TRUE
    /\ CallGoto(c, "spawn")
    /\ UNCHANGED <<MONITORING_THREAD, GLOBAL_SAMPLING_ENGINE, m_kind, m_handle,
                   t_pc, t_stream, exceptMonitor>>

\* let handle = std::thread::spawn(move || { .. })
StartSpawn(c) ==
    /\ m_pc[c] = "spawn"
    /\ LET t == Cardinality(SpawnedThreads) + 1
       IN /\ ThreadGoto(t, "engine_new")
          /\ m_handle' = [m_handle EXCEPT ![c] = t]
    /\ CallGoto(c, "store_handle")
    /\ UNCHANGED <<MONITORING_ACTIVE, MONITORING_THREAD, GLOBAL_SAMPLING_ENGINE,
                   m_kind, t_stream, exceptMonitor>>

\* *thread_guard = Some(handle); Ok("started").  A handle that was in the slot
\* is dropped, which detaches its thread.
StartStoreHandle(c) ==
    /\ m_pc[c] = "store_handle"
    /\ MONITORING_THREAD' = m_handle[c]
    /\ CallGoto(c, "done")
    /\ UNCHANGED <<MONITORING_ACTIVE, GLOBAL_SAMPLING_ENGINE, m_kind, m_handle,
                   t_pc, t_stream, exceptMonitor>>

\* MONITORING_ACTIVE.store(false, Relaxed)
StopClear(c) ==
    /\ m_pc[c] = "clear"
    /\ MONITORING_ACTIVE' = FALSE
    /\ CallGoto(c, "take")
    /\ UNCHANGED <<MONITORING_THREAD, GLOBAL_SAMPLING_ENGINE, m_kind, m_handle,
                   t_pc, t_stream, exceptMonitor>>

\* if let Some(handle) = thread_guard.take() { drop(thread_guard); .. }
StopTake(c) ==
    /\ m_pc[c] = "take"
    /\ m_handle' = [m_handle EXCEPT ![c] = MONITORING_THREAD]
    /\ MONITORING_THREAD' = 0
    /\ CallGoto(c, IF MONITORING_THREAD # 0 THEN "join" ELSE "remove_engine")
    /\ UNCHANGED <<MONITORING_ACTIVE, GLOBAL_SAMPLING_ENGINE, m_kind, t_pc,
                   t_stream, exceptMonitor>>

\* handle.join(): returns once the thread has ended.
StopJoin(c) ==
    /\ m_pc[c] = "join"
    /\ t_pc[m_handle[c]] = "exited"
    /\ CallGoto(c, "remove_engine")
    /\ UNCHANGED <<MONITORING_ACTIVE, MONITORING_THREAD, GLOBAL_SAMPLING_ENGINE,
                   m_kind, m_handle, t_pc, t_stream, exceptMonitor>>

\* *engine_guard = None; Ok("stopped")
StopRemoveEngine(c) ==
    /\ m_pc[c] = "remove_engine"
    /\ GLOBAL_SAMPLING_ENGINE' = 0
    /\ CallGoto(c, "done")
    /\ UNCHANGED <<MONITORING_ACTIVE, MONITORING_THREAD, m_kind, m_handle, t_pc,
                   t_stream, exceptMonitor>>

\* An error in the thread's set-up: MONITORING_ACTIVE.store(false); return.
\* A stream built and not played is dropped.
ThreadFail(t) ==
    /\ MONITORING_ACTIVE' = FALSE
    /\ ThreadGoto(t, "exited")
    /\ t_stream' = [t_stream EXCEPT ![t] = IF @ = "none" THEN "none" ELSE "dropped"]
    /\ UNCHANGED GLOBAL_SAMPLING_ENGINE

\* match SamplingEngine::new(config) { Ok(engine) => Arc::new(engine), Err .. }
ThreadEngineNew(t) ==
    /\ t_pc[t] = "engine_new"
    /\ \E ok \in BOOLEAN :
        IF ok THEN /\ ThreadGoto(t, "store_engine")
                   /\ UNCHANGED <<MONITORING_ACTIVE, GLOBAL_SAMPLING_ENGINE, t_stream>>
              ELSE ThreadFail(t)
    /\ UNCHANGED <<MONITORING_THREAD, m_kind, m_pc, m_handle, exceptMonitor>>

\* *engine_guard = Some(Arc::clone(&sampling_engine))
ThreadStoreEngine(t) ==
    /\ t_pc[t] = "store_engine"
    /\ GLOBAL_SAMPLING_ENGINE' = t
    /\ ThreadGoto(t, "start_stream")
    /\ UNCHANGED <<MONITORING_ACTIVE, MONITORING_THREAD, m_kind, m_pc, m_handle,
                   t_stream, exceptMonitor>>

\* let stream = match sampling_engine.start_monitoring_stream() { .. }
ThreadStartStream(t) ==
    /\ t_pc[t] = "start_stream"
    /\ \E ok \in BOOLEAN :
        IF ok THEN /\ ThreadGoto(t, "play")
                   /\ t_stream' = [t_stream EXCEPT ![t] = "built"]
                   /\ UNCHANGED <<MONITORING_ACTIVE, GLOBAL_SAMPLING_ENGINE>>
              ELSE ThreadFail(t)
    /\ UNCHANGED <<MONITORING_THREAD, m_kind, m_pc, m_handle, exceptMonitor>>

\* if let Err(e) = stream.play() { .. }
ThreadPlay(t) ==
    /\ t_pc[t] = "play"
    /\ \E ok \in BOOLEAN :
        IF ok THEN /\ ThreadGoto(t, "loop")
                   /\ t_stream' = [t_stream EXCEPT ![t] = "playing"]
                   /\ UNCHANGED <<MONITORING_ACTIVE, GLOBAL_SAMPLING_ENGINE>>
              ELSE ThreadFail(t)
    /\ UNCHANGED <<MONITORING_THREAD, m_kind, m_pc, m_handle, exceptMonitor>>

\* while MONITORING_ACTIVE.load(Relaxed) { sleep(100 ms) }; stream.pause();
\* and the thread ends.
ThreadLoop(t) ==
    /\ t_pc[t] = "loop"
    /\ IF MONITORING_ACTIVE
       THEN UNCHANGED <<t_pc, t_stream>>
       ELSE /\ ThreadGoto(t, "exited")
            /\ t_stream' = [t_stream EXCEPT ![t] = "paused"]
    /\ UNCHANGED <<MONITORING_ACTIVE, MONITORING_THREAD, GLOBAL_SAMPLING_ENGINE,
                   m_kind, m_pc, m_handle, exceptMonitor>>

\* The steps of one call and of one thread.
CallRuns(c) ==
    \/ MonitorCallBegin(c)
    \/ StartCheck(c)
    \/ StartStore(c)
    \/ StartSpawn(c)
    \/ StartStoreHandle(c)
    \/ StopClear(c)
    \/ StopTake(c)
    \/ StopJoin(c)
    \/ StopRemoveEngine(c)
ThreadRuns(t) ==
    \/ ThreadEngineNew(t)
    \/ ThreadStoreEngine(t)
    \/ ThreadStartStream(t)
    \/ ThreadPlay(t)
    \/ ThreadLoop(t)

NextMonitor ==
    \/ \E c \in MonitorCalls : MonitorCallBegin(c)
    \/ \E c \in MonitorCalls : StartCheck(c)
    \/ \E c \in MonitorCalls : StartStore(c)
    \/ \E c \in MonitorCalls : StartSpawn(c)
    \/ \E c \in MonitorCalls : StartStoreHandle(c)
    \/ \E c \in MonitorCalls : StopClear(c)
    \/ \E c \in MonitorCalls : StopTake(c)
    \/ \E c \in MonitorCalls : StopJoin(c)
    \/ \E c \in MonitorCalls : StopRemoveEngine(c)
    \/ \E t \in MonitorThreads : ThreadEngineNew(t)
    \/ \E t \in MonitorThreads : ThreadStoreEngine(t)
    \/ \E t \in MonitorThreads : ThreadStartStream(t)
    \/ \E t \in MonitorThreads : ThreadPlay(t)
    \/ \E t \in MonitorThreads : ThreadLoop(t)

\* The statics as they are initialised (lib.rs 18-20); no call has been made.
InitMonitor ==
    /\ op = "monitor"
    /\ overflow_checks = FALSE
    /\ SessionIdle
    /\ PanicIdle
    /\ DetectIdle
    /\ ExportIdle
    /\ LoopIdle
    /\ ConvertIdle
    /\ EncodeIdle
    /\ CrossfadeIdle
    /\ SlotIdle
    /\ InstrumentIdle
    /\ MONITORING_ACTIVE = FALSE /\ MONITORING_THREAD = 0
    /\ GLOBAL_SAMPLING_ENGINE = 0
    /\ m_kind = [c \in MonitorCalls |-> "none"]
    /\ m_pc = [c \in MonitorCalls |-> "idle"]
    /\ m_handle = [c \in MonitorCalls |-> 0]
    /\ t_pc = [t \in MonitorThreads |-> "none"]
    /\ t_stream = [t \in MonitorThreads |-> "none"]

\* Every call that has begun and every thread is scheduled again and again.
SpecMonitor ==
    /\ InitMonitor /\ [][NextMonitor]_vars
    /\ \A c \in MonitorCalls : WF_vars(m_pc[c] # "idle" /\ CallRuns(c))
    /\ \A t \in MonitorThreads : WF_vars(ThreadRuns(t))

\* The monitoring threads that have been spawned and have not ended.
RunningThreads == {t \in MonitorThreads : t_pc[t] \notin {"none", "exited"}}

\* C37: whatever way start_input_monitoring calls that run at the same time
\* interleave, at most one monitoring thread and at most one stream is running
\* at any time, and once the calls have returned the handle in
\* MONITORING_THREAD is that of the running thread.
OneMonitoringThread ==
    (\A c \in MonitorCalls : m_kind[c] # "stop") =>
        /\ Cardinality(RunningThreads) <= 1
        /\ Cardinality({t \in MonitorThreads : t_stream[t] \in {"built", "playing"}}) <= 1
        /\ (\A c \in MonitorCalls : m_pc[c] \in {"idle", "done"}) =>
               \A t \in RunningThreads : MONITORING_THREAD = t

\* C38: every stop_input_monitoring call returns in the end, also when
\* start_input_monitoring calls run beside it, and when it has returned the
\* monitoring thread it joined has ended with its stream paused.
StopReturns ==
    /\ \A c \in MonitorCalls : (m_kind[c] = "stop") ~> (m_pc[c] = "done")
    /\ [](\A c \in MonitorCalls :
            m_kind[c] = "stop" /\ m_pc[c] = "done" /\ m_handle[c] # 0 =>
                /\ t_pc[m_handle[c]] = "exited"
                /\ t_stream[m_handle[c]] # "playing")

(***************************************************************************)
(* generate_instrument_files (lib.rs): builds an instrument file for the   *)
(* WAV files of a directory from their names.  A file name is kept as the  *)
(* pattern it has and the two numbers in it, in the order they stand:      *)
(*   "vel":  .._<name>_<first>_vel<second>    note first, velocity second  *)
(*   "rk":   .._<name>_v<first>_rk<second>    velocity first, note second  *)
(*   "other": neither pattern                                              *)
(***************************************************************************)

WavFileNames ==
    {[pattern |-> "vel", first |-> 60, second |-> 127],
     [pattern |-> "vel", first |-> 61, second |-> 64],
     [pattern |-> "rk", first |-> 127, second |-> 62],
     [pattern |-> "vel", first |-> 300, second |-> 100],
     [pattern |-> "other", first |-> 0, second |-> 0]}

\* The directories: read_dir gives the files in no particular order.
RECURSIVE Directories(_)
Directories(n) ==
    IF n = 0 THEN {<<>>}
    ELSE Directories(n - 1) \cup
         {Append(d, f) : d \in {e \in Directories(n - 1) : Len(e) = n - 1},
                         f \in WavFileNames}

\* str::parse::<u8> of a number's digits.
ParsesAsU8(n) == n < U8Mod

\* The note and velocity the two regular expressions and the parses take from
\* a file name: a sequence of one, or the empty one where the loop continues
\* without a Sample.
ParseFileName(filename) ==
    CASE filename.pattern = "vel" ->
            IF ParsesAsU8(filename.first) /\ ParsesAsU8(filename.second)
            THEN <<[note |-> filename.first, velocity |-> filename.second]>>
            ELSE <<>>
      [] filename.pattern = "rk" ->
            IF ParsesAsU8(filename.second) /\ ParsesAsU8(filename.first)
            THEN <<[note |-> filename.second, velocity |-> filename.first]>>
            ELSE <<>>
      [] OTHER -> <<>>

\* The command returns.
InstrumentReturn(r) ==
    /\ i_pc' = "done"
    /\ i_result' = r

\* if wav_files.is_empty() { return Err("No WAV files found in directory") }
InstrumentScan ==
    /\ i_pc = "scan"
    /\ IF i_wav_files = <<>>
       THEN InstrumentReturn("Err")
       ELSE i_pc' = "parse" /\ UNCHANGED i_result
    /\ UNCHANGED <<i_format, i_wav_files, i_index, i_samples, i_groups,
                   exceptInstrument>>

\* One turn of for wav_file in &wav_files { .. samples.push(sample) }
InstrumentParse ==
    /\ i_pc = "parse" /\ i_index <= Len(i_wav_files)
    /\ i_samples' = i_samples \o ParseFileName(i_wav_files[i_index])
    /\ i_index' = i_index + 1
    /\ UNCHANGED <<i_pc, i_format, i_wav_files, i_groups, i_result, exceptInstrument>>

\* if samples.is_empty() { return Err(..) }; the match on export_format; and
\* exporter.generate_dspreset_file(&samples, &wav_files) or
\* generate_sfz_file(&samples, &wav_files), which group by velocity the same
\* way and may fail to write the file.
InstrumentGenerate ==
    /\ i_pc = "parse" /\ i_index > Len(i_wav_files)
    /\ IF i_samples = <<>> \/ i_format \notin {"decentsampler", "sfz"}
       THEN InstrumentReturn("Err") /\ UNCHANGED i_groups
       ELSE \E written \in BOOLEAN :
              IF written
              THEN /\ i_groups' = DspresetGroups(i_samples, i_wav_files)
                   /\ InstrumentReturn("Ok")
              ELSE InstrumentReturn("Err") /\ UNCHANGED i_groups
    /\ UNCHANGED <<i_format, i_wav_files, i_index, i_samples, exceptInstrument>>

NextInstrument ==
    \/ InstrumentScan
    \/ InstrumentParse
    \/ InstrumentGenerate

InitInstrument ==
    /\ op = "instrument"
    /\ overflow_checks = FALSE
    /\ SessionIdle
    /\ PanicIdle
    /\ DetectIdle
    /\ ExportIdle
    /\ LoopIdle
    /\ ConvertIdle
    /\ EncodeIdle
    /\ CrossfadeIdle
    /\ SlotIdle
    /\ MonitorIdle
    /\ i_pc = "scan"
    /\ i_format \in {"decentsampler", "sfz", "kontakt"}
    /\ i_wav_files \in {d \in Directories(MaxDirFiles) :
                          \A a, b \in 1..Len(d) : a # b => d[a] # d[b]}
    /\ i_index = 1
    /\ i_samples = <<>> /\ i_groups = <<>>
    /\ i_result = "running"

SpecInstrument == InitInstrument /\ [][NextInstrument]_vars

\* C39: every sample entry written to the instrument file pairs a note and a
\* velocity with the path of the WAV file from whose name they were parsed,
\* whatever the directory holds, files with unrecognised names included.
EntriesPairParsedPath ==
    i_result = "Ok" =>
        \A g \in 1..Len(i_groups) : \A k \in 1..Len(i_groups[g].samples) :
            LET entry == i_groups[g].samples[k]
            IN ParseFileName(entry.path) = <<[note |-> entry.note,
                                              velocity |-> entry.velocity]>>

====
